---- MODULE Spec2Model ----
(***************************************************************************)
(* Project invitation / membership workflow of YunoCode.                   *)
(*                                                                         *)
(* The client (React components) is modelled from the TypeScript sources.  *)
(* The hosted backend (tables, uniqueness constraint, access rules, the    *)
(* transfer_project_ownership procedure) has no source in the repository   *)
(* tree that is modelled here; it is modelled from the specification and   *)
(* every such definition carries the prefix Db.                            *)
(*                                                                         *)
(* A session is one browser running the application.  Every handler is a  *)
(* sequence of steps separated at the awaits where the handler's remote    *)
(* calls are issued; pc[s] is the position of the handler in flight.       *)
(***************************************************************************)
EXTENDS Integers, Sequences, FiniteSets, TLC

\* ---------------------------------------------------------------- bounds
MaxProjects == 1
MaxInvitations == 2
MaxTime == 1
\* rows of project_members one identity may hold for one project
MaxMemberRows == 2
MaxRegistryProjects == 2
MaxFilterProjects == 3
\* tags of the form of CreateProjectModal
MaxTags == 3
\* authentication events delivered to a page and not yet handled
MaxEvents == 2
\* mutations of the project list one page has in flight, and the projects of
\* the registry while mutations are in flight
MaxInFlight == 2
\* handlers of one page waiting at an await
MaxAwaiting == 2
MaxInFlightProjects == 2

\* Offset between created_at and expires_at of an invitation, in clock ticks
\* (the 7 days of the invitation mail).
ExpiryOffset == 1

\* ---------------------------------------------------------------- values
Null == "null"
NoTime == <<>>
Sessions == {"s1", "s2"}
\* s1 is a browser whose user works with the project cards and the members
\* modal; s2 one whose user works with the invitations modal, leaves
\* projects and signs out and in
OwnerSide == {"s1"}
InviteeSide == {"s2"}
Users == {"U1", "U2"}

\* profiles table: one row per identity, usernames are stored lower-cased
Profiles ==
  { [user_id |-> "U1", username |-> "alice", email |-> "alice@x.io"],
    [user_id |-> "U2", username |-> "bob",   email |-> "bob@x.io"] }

\* user.email of the auth identity
EmailOf(u) == (CHOOSE p \in Profiles : p.user_id = u).email

\* what a user can type into the invite box
InviteInputs ==
  { "", "  ", "alice@x.io", "Alice@X.io", "bob@x.io", " Bob@X.io ",
    "alice", "Alice", "bob", "Bob", "nobody" }

\* String.prototype.trim on the strings of the model
Trim(str) ==
  CASE str = "  " -> ""
    [] str = " Bob@X.io " -> "Bob@X.io"
    [] OTHER -> str

\* String.prototype.toLowerCase on the strings of the model
ToLowerCase(str) ==
  CASE str = "Alice@X.io" -> "alice@x.io"
    [] str = "Bob@X.io" -> "bob@x.io"
    [] str = " Bob@X.io " -> " bob@x.io "
    [] str = "Alice" -> "alice"
    [] str = "Bob" -> "bob"
    [] OTHER -> str

\* /^[^\s@]+@[^\s@]+\.[^\s@]+$/.test(str) on the strings of the model
EmailRegexTest(str) ==
  str \in {"alice@x.io", "Alice@X.io", "bob@x.io", "Bob@X.io"}

NoInvitation ==
  [id |-> 0, project_id |-> 0, email |-> Null, role |-> Null,
   invited_by |-> Null, token |-> 0, created_at |-> 0, expires_at |-> 0,
   accepted_at |-> NoTime]

NoFrame == [inv |-> NoInvitation, user |-> Null, target |-> Null, calls |-> <<>>]

\* the toast the last step showed, and the session it was shown in
Toast(s, title) == [session |-> s, title |-> title]
NoToast == Toast(Null, Null)

\* the remote writes issued so far by the handler the last step belongs to
Calls(s, issued) == [session |-> s, issued |-> issued]
NoCalls == Calls(Null, <<>>)

\* no function of emailService.ts has been called
NoMail == [fn |-> Null, data |-> Null, out |-> Null, result |-> Null]

\* outcome of a remote write on the network level
NetOutcomes == {"ok", "fails"}

\* outcome of emailjs.send: resolved, or rejected with an EmailJSResponseStatus
\* object, with an Error, or with a string (validateParams)
EmailJsOutcomes == {"ok", "status", "error", "string"}
Undefined == "undefined"

\* supabase.auth.getUser() of the effect of Index: not in flight, issued, or
\* answered with the identity the response carries
\* the components whose state isLoading the model keeps: ProjectMembersModal,
\* UserInvitationsModal, CreateProjectModal and AuthModal
Components == {"members", "invitations", "project", "auth"}

NoFetch == [state |-> "none", user |-> Null]

\* ----------------------------------------------------- text of projects
\* The name, the description and the tags of a project and the search query
\* are strings; they are modelled as sequences of characters so that trim,
\* toLowerCase and includes are computed.  A description of null is the empty
\* text: both are falsy where the program reads the description.
NoText == <<>>

\* String.prototype.toLowerCase
LowerChar(c) == CASE c = "A" -> "a" [] c = "B" -> "b" [] OTHER -> c
ToLowerText(str) == [i \in 1..Len(str) |-> LowerChar(str[i])]

\* String.prototype.includes
Includes(hay, needle) ==
  \E i \in 0..(Len(hay) - Len(needle)) : SubSeq(hay, i + 1, i + Len(needle)) = needle

\* String.prototype.trim
RECURSIVE TrimText(_)
TrimText(str) ==
  IF str = <<>> THEN <<>>
  ELSE IF Head(str) = " " THEN TrimText(Tail(str))
  ELSE IF str[Len(str)] = " " THEN TrimText(SubSeq(str, 1, Len(str) - 1))
  ELSE str

\* the form of CreateProjectModal as the invitation workflow fills it in
WorkflowForms == {[name |-> <<"a">>, description |-> NoText, tags |-> <<>>]}

VARIABLES
  projects,            \* table projects: rows [id, user_id, name, description, tags, updated_at]
  nextProject,         \* next project id the backend hands out
  project_members,     \* table project_members: rows [project_id, user_id, role, email, invited_by, n]
  project_invitations, \* table project_invitations
  nextInvitation,      \* next invitation id / token the backend hands out
  now,                 \* the clock
  outbox,              \* invitation mails accepted by the mail API: [to_email, token]
  mail,                \* the last call of a function of emailService.ts
  auth,                \* auth[s]: identity of the browser's auth session, or Null
  user,                \* user[s]: React state user of Index / AuthenticatedView
  pc,                  \* pc[s]: position of the handler in flight
  frame,               \* frame[s]: locals of the handler in flight
  modal,               \* modal[s]: "none", "members" or "invitations"
  projectId,           \* projectId[s]: project of the open members modal
  members,             \* members[s]: ProjectMembersModal state members
  invitations,         \* invitations[s]: ProjectMembersModal state invitations
  userInvitations,     \* userInvitations[s]: UserInvitationsModal state invitations
  currentUserId,       \* currentUserId[s]: ProjectMembersModal state
  isOwner,             \* isOwner[s]: ProjectMembersModal state
  projectList,         \* projectList[s]: AuthenticatedView state projects
  searchQuery,         \* searchQuery[s]: AuthenticatedView state
  selectedTags,        \* selectedTags[s]: AuthenticatedView state
  filteredProjects,    \* filteredProjects[s]: AuthenticatedView state, one card each
  cardIsOwner,         \* cardIsOwner[s]: ids of the cards whose state isOwner is true
  cardChecking,        \* cardChecking[s]: ids of the cards whose checkOwnership is in flight
  pendingInvitationsCount, \* pendingInvitationsCount[s]: AuthenticatedView state
  formTags,            \* formTags[s]: CreateProjectModal state tags
  newTag,              \* newTag[s]: CreateProjectModal state newTag
  subscribed,          \* subscribed[s]: the effect of Index is mounted
  fetch,               \* fetch[s]: the getUser() call of the effect of Index
  events,              \* events[s]: auth events delivered to the callback, oldest first
  unhandled,           \* unhandled[s]: handlers whose promise rejected with no catch
  inflight,            \* inflight[s]: mutations of the project list awaiting their answer
  isInviting,          \* isInviting[s]: ProjectMembersModal state
  isLoading,           \* isLoading[s][c]: state isLoading of component c
  awaiting,            \* awaiting[s]: handlers with a busy flag waiting at an await
  toast,               \* the toast the last step showed, if any
  calls                \* the remote writes of the handler of the last step

backend == <<projects, nextProject, project_members, project_invitations,
             nextInvitation, now, outbox, mail>>
local == <<modal, projectId, members, invitations, userInvitations,
           currentUserId, isOwner>>
registry == <<projectList, searchQuery, selectedTags, filteredProjects,
              cardIsOwner, cardChecking, pendingInvitationsCount>>
\* the tags of the form of CreateProjectModal
tagForm == <<formTags, newTag>>
\* the state that the handlers of the invitation workflow and of the cards
\* neither read nor write
\* the identity effect of Index
gate == <<subscribed, fetch, events>>
\* the promise rejections no handler caught
faults == <<unhandled>>
\* the mutations of the project list that are in flight
\* the busy flags and the handlers that set them
busy == <<isInviting, isLoading, awaiting>>
after == <<inflight, busy>>
beyond == <<faults, after>>
rest == <<gate, beyond>>
aside == <<tagForm, rest>>
vars == <<projects, nextProject, project_members, project_invitations,
          nextInvitation, now, outbox, mail, auth, user, pc, frame, modal,
          projectId,
          members, invitations, userInvitations, currentUserId, isOwner,
          projectList, searchQuery, selectedTags, filteredProjects,
          cardIsOwner, cardChecking, pendingInvitationsCount,
          formTags, newTag, subscribed, fetch, events, unhandled, inflight,
          isInviting, isLoading, awaiting,
          toast, calls>>

\* a step that shows no toast and belongs to no handler that writes
Quiet == toast' = NoToast /\ calls' = NoCalls

\* ------------------------------------------------------- backend (Db...)
\* An invitation is pending iff accepted_at IS NULL AND expires_at > now().
Pending(r) == r.accepted_at = NoTime /\ r.expires_at > now

ProjectIds == {r.id : r \in projects}
OwnersOf(p) == {r.user_id : r \in {x \in projects : x.id = p}}

\* storage-level uniqueness: one unexpired, unaccepted invitation per (project, email)
DbDuplicatePending(p, email) ==
  \E r \in project_invitations : r.project_id = p /\ r.email = email /\ Pending(r)

\* the row the server stores for an insert into project_invitations
\* (the server generates id, token, created_at and expires_at)
DbInvitationRow(values) ==
  [id |-> nextInvitation, project_id |-> values.project_id,
   email |-> values.email, role |-> values.role,
   invited_by |-> values.invited_by, token |-> nextInvitation,
   created_at |-> now, expires_at |-> now + ExpiryOffset,
   accepted_at |-> NoTime]

\* an access rule of Accept that only asks for an identity and the row
DbAcceptAllowedAnyEmail(u, inv) ==
  /\ u # Null
  /\ \E r \in project_invitations : r.id = inv.id /\ r.project_id = inv.project_id

\* access rule of Accept: the accepting identity's email is the invitation's,
\* and the invitation row is there
DbAcceptAllowed(u, inv) ==
  /\ u # Null
  /\ \E r \in project_invitations :
       r.id = inv.id /\ r.project_id = inv.project_id /\ r.email = EmailOf(u)

\* Decline is for the invitee, Cancel for the inviter or the owner
DbDeleteInvitationAllowed(u, id) ==
  /\ u # Null
  /\ \A r \in project_invitations :
       r.id = id => \/ r.email = EmailOf(u)
                    \/ r.invited_by = u
                    \/ u \in OwnersOf(r.project_id)

\* transfer_project_ownership(p_project_id, p_new_owner_id), one transaction:
\* only the current owner may invoke it
DbTransferAllowed(u, p) == u # Null /\ u \in OwnersOf(p)
DbTransferProjects(p, newOwner) ==
  {IF r.id = p THEN [r EXCEPT !.user_id = newOwner] ELSE r : r \in projects}
DbTransferMembers(p, newOwner) ==
  {m \in project_members : ~(m.project_id = p /\ m.user_id = newOwner)}

\* update of a project: only the owner's update finds the row; the server
\* stamps updated_at
DbUpdateAllowed(u, p) == u # Null /\ u \in OwnersOf(p)
DbUpdatedRow(r, values) ==
  [r EXCEPT !.name = values.name, !.description = values.description,
            !.tags = values.tags, !.updated_at = now]

\* delete of a project cascades to its memberships and invitations
DbDeleteAllowed(u, p) == u # Null /\ u \in OwnersOf(p)
DbCascadeMembers(p) == {m \in project_members : m.project_id # p}
DbCascadeInvitations(p) == {r \in project_invitations : r.project_id # p}

\* a membership row as stored; n numbers the rows of one (project, user)
DbMemberRow(values) ==
  [project_id |-> values.project_id, user_id |-> values.user_id,
   role |-> values.role, email |-> values.email,
   invited_by |-> values.invited_by,
   n |-> 1 + Cardinality({m \in project_members :
                            /\ m.project_id = values.project_id
                            /\ m.user_id = values.user_id})]

\* ------------------------------------------------------- client helpers
\* .order("created_at", { ascending: false }); ids grow with created_at
RECURSIVE NewestFirst(_)
NewestFirst(S) ==
  IF S = {} THEN <<>>
  ELSE LET r == CHOOSE x \in S : \A y \in S : y.id <= x.id
       IN <<r>> \o NewestFirst(S \ {r})

\* the pending invitations query of the members modal
PendingOfProject(p) ==
  NewestFirst({r \in project_invitations : r.project_id = p /\ Pending(r)})

\* the pending invitations query of the user's invitations modal
PendingOfEmail(email) ==
  NewestFirst({r \in project_invitations : r.email = email /\ Pending(r)})

\* allMembers of loadMembersAndInvitations: the owner first, then the rows
\* of project_members that are not the owner's
AllMembers(p) ==
  {[user_id |-> o, role |-> "owner"] : o \in OwnersOf(p)} \cup
  {[user_id |-> m.user_id, role |-> m.role] :
     m \in {x \in project_members : x.project_id = p /\ x.user_id \notin OwnersOf(p)}}

\* getUserProjectIds: the project ids of the user's rows of project_members
GetUserProjectIds(u) ==
  IF u = Null THEN {} ELSE {m.project_id : m \in {x \in project_members : x.user_id = u}}

\* the rows of projects a signed-in user may read
DbProjectVisible(viewer, r) ==
  /\ viewer # Null
  /\ \/ r.user_id = viewer
     \/ \E m \in project_members : m.project_id = r.id /\ m.user_id = viewer

\* the rows of project_invitations a signed-in user may read
DbInvitationVisible(viewer, r) ==
  /\ viewer # Null
  /\ \/ r.email = EmailOf(viewer)
     \/ r.invited_by = viewer
     \/ viewer \in OwnersOf(r.project_id)

\* a query of loadProjects that selects by user_id alone
OwnedProjects(viewer, u) ==
  {r \in projects : DbProjectVisible(viewer, r) /\ r.user_id = u}

\* the rows the query of loadProjects selects:
\* .or(`user_id.eq.${user?.id},id.in.(${await getUserProjectIds()})`)
AccessibleProjects(viewer, u) ==
  {r \in projects : /\ DbProjectVisible(viewer, r)
                    /\ (r.user_id = u \/ r.id \in GetUserProjectIds(u))}

\* .order("updated_at", { ascending: false }): every order of the rows that
\* is descending in updated_at (rows of equal updated_at come in any order)
ByUpdatedAtDesc(S) ==
  {list \in [1..Cardinality(S) -> S] :
     /\ \A i, j \in 1..Cardinality(S) : i # j => list[i] # list[j]
     /\ \A i, j \in 1..Cardinality(S) : i < j => list[i].updated_at >= list[j].updated_at}

\* the count query of loadPendingInvitationsCount
PendingCount(viewer, u) ==
  Cardinality({r \in project_invitations :
                 /\ DbInvitationVisible(viewer, r)
                 /\ r.email = EmailOf(u) /\ Pending(r)})

\* a search predicate that compares without toLowerCase
MatchesQueryCaseSensitive(project, query) ==
  \/ Includes(project.name, query)
  \/ Includes(project.description, query)
  \/ \E i \in 1..Len(project.tags) : Includes(project.tags[i], query)

\* the search predicate of filterProjects
MatchesQuery(project, query) ==
  \/ Includes(ToLowerText(project.name), ToLowerText(query))
  \/ Includes(ToLowerText(project.description), ToLowerText(query))
  \/ \E i \in 1..Len(project.tags) :
       Includes(ToLowerText(project.tags[i]), ToLowerText(query))

\* the tag predicate of filterProjects: selectedTags.every(tag => tags.includes(tag))
HasSelectedTags(project, tags) ==
  \A i \in 1..Len(tags) : \E j \in 1..Len(project.tags) : project.tags[j] = tags[i]

\* a filterProjects that keeps only the first hit of the search
FilterProjectsFirstHit(list, query, tags) ==
  LET hits == SelectSeq(list, LAMBDA project : MatchesQuery(project, query))
      byQuery == IF query # <<>> THEN SubSeq(hits, 1, IF Len(hits) > 0 THEN 1 ELSE 0)
                                 ELSE list
  IN IF Len(tags) > 0
       THEN SelectSeq(byQuery, LAMBDA project : HasSelectedTags(project, tags))
       ELSE byQuery

\* filterProjects: the value it passes to setFilteredProjects
FilterProjects(list, query, tags) ==
  LET byQuery == IF query # <<>>
                   THEN SelectSeq(list, LAMBDA project : MatchesQuery(project, query))
                   ELSE list
  IN IF Len(tags) > 0
       THEN SelectSeq(byQuery, LAMBDA project : HasSelectedTags(project, tags))
       ELSE byQuery

CardIds(cards) == {cards[i].id : i \in 1..Len(cards)}
CardOwner(cards, p) == cards[CHOOSE i \in 1..Len(cards) : cards[i].id = p].user_id

\* a render of AuthenticatedView with the given projects, searchQuery and
\* selectedTags: the effect runs filterProjects and one ProjectCard is
\* mounted per filtered project (key = project.id).  A new card starts with
\* isOwner = false and its checkOwnership in flight; a card that stays keeps
\* its state, and its effect runs again when project.user_id has changed.
Render(s, list, query, tags) ==
  LET shown == FilterProjects(list, query, tags)
      kept == CardIds(shown) \cap CardIds(filteredProjects[s])
      changed == {p \in kept :
                    CardOwner(shown, p) # CardOwner(filteredProjects[s], p)}
  IN /\ projectList' = [projectList EXCEPT ![s] = list]
     /\ searchQuery' = [searchQuery EXCEPT ![s] = query]
     /\ selectedTags' = [selectedTags EXCEPT ![s] = tags]
     /\ filteredProjects' = [filteredProjects EXCEPT ![s] = shown]
     /\ cardIsOwner' = [cardIsOwner EXCEPT ![s] = @ \cap kept]
     /\ cardChecking' = [cardChecking EXCEPT ![s] =
                           (@ \cap kept) \cup changed \cup (CardIds(shown) \ kept)]

\* setProjects(list)
SetProjects(s, list) == Render(s, list, searchQuery[s], selectedTags[s])

\* loadProjects and loadPendingInvitationsCount, as onInvitationUpdate
\* starts them
LoadRegistry(s) ==
  /\ \E list \in ByUpdatedAtDesc(AccessibleProjects(auth[s], user[s])) :
       SetProjects(s, list)
  /\ pendingInvitationsCount' =
       [pendingInvitationsCount EXCEPT ![s] = PendingCount(auth[s], user[s])]

\* loadProjects with the outcome of the query of getUserProjectIds (rows, an
\* error object, or a rejected promise) and of the query of projects.
\* getUserProjectIds reads data alone, so an error object gives no ids.
LoadProjects(s, ids, net) ==
  /\ pc[s] = "idle" /\ user[s] # Null /\ modal[s] = "none"
  /\ IF ids = "rejects" \/ net = "fails"
       THEN /\ toast' = Toast(s, "Error")
            /\ UNCHANGED registry
       ELSE /\ \E list \in ByUpdatedAtDesc(
                      {r \in AccessibleProjects(auth[s], user[s]) :
                         ids = "ok" \/ r.user_id = user[s]}) :
                 SetProjects(s, list)
            /\ UNCHANGED pendingInvitationsCount
            /\ toast' = NoToast
  /\ calls' = NoCalls
  /\ UNCHANGED <<backend, auth, user, pc, frame, local>>
  /\ UNCHANGED aside

\* AuthenticatedView mounting for user u: fresh state, then the effect on
\* [user] runs loadProjects and loadPendingInvitationsCount
Mounted(s, u) ==
  /\ searchQuery' = [searchQuery EXCEPT ![s] = NoText]
  /\ selectedTags' = [selectedTags EXCEPT ![s] = <<>>]
  /\ \E list \in ByUpdatedAtDesc(AccessibleProjects(auth[s], u)) :
       /\ projectList' = [projectList EXCEPT ![s] = list]
       /\ filteredProjects' = [filteredProjects EXCEPT ![s] = list]
       /\ cardChecking' = [cardChecking EXCEPT ![s] = CardIds(list)]
  /\ cardIsOwner' = [cardIsOwner EXCEPT ![s] = {}]
  /\ pendingInvitationsCount' =
       [pendingInvitationsCount EXCEPT ![s] = PendingCount(auth[s], u)]

\* ------------------------------------------------------- initial state
Init ==
  /\ projects = {}
  /\ nextProject = 1
  /\ project_members = {}
  /\ project_invitations = {}
  /\ nextInvitation = 1
  /\ now = 0
  /\ outbox = {}
  /\ mail = NoMail
  /\ auth = [s \in Sessions |-> IF s \in OwnerSide THEN "U1" ELSE "U2"]
  /\ user = auth
  /\ pc = [s \in Sessions |-> "idle"]
  /\ frame = [s \in Sessions |-> NoFrame]
  /\ modal = [s \in Sessions |-> "none"]
  /\ projectId = [s \in Sessions |-> 0]
  /\ members = [s \in Sessions |-> {}]
  /\ invitations = [s \in Sessions |-> <<>>]
  /\ userInvitations = [s \in Sessions |-> <<>>]
  /\ currentUserId = [s \in Sessions |-> Null]
  /\ isOwner = [s \in Sessions |-> FALSE]
  /\ projectList = [s \in Sessions |-> <<>>]
  /\ searchQuery = [s \in Sessions |-> NoText]
  /\ selectedTags = [s \in Sessions |-> <<>>]
  /\ filteredProjects = [s \in Sessions |-> <<>>]
  /\ cardIsOwner = [s \in Sessions |-> {}]
  /\ cardChecking = [s \in Sessions |-> {}]
  /\ pendingInvitationsCount = [s \in Sessions |-> 0]
  /\ formTags = [s \in Sessions |-> <<>>]
  /\ newTag = [s \in Sessions |-> NoText]
  /\ subscribed = [s \in Sessions |-> TRUE]
  /\ fetch = [s \in Sessions |-> NoFetch]
  /\ events = [s \in Sessions |-> <<>>]
  /\ unhandled = [s \in Sessions |-> {}]
  /\ inflight = [s \in Sessions |-> {}]
  /\ isInviting = [s \in Sessions |-> FALSE]
  /\ isLoading = [s \in Sessions |-> [c \in Components |-> FALSE]]
  /\ awaiting = [s \in Sessions |-> <<>>]
  /\ toast = NoToast
  /\ calls = NoCalls

\* the component state a session loses when AuthenticatedView unmounts
Unmounted(s) ==
  /\ modal' = [modal EXCEPT ![s] = "none"]
  /\ projectId' = [projectId EXCEPT ![s] = 0]
  /\ members' = [members EXCEPT ![s] = {}]
  /\ invitations' = [invitations EXCEPT ![s] = <<>>]
  /\ userInvitations' = [userInvitations EXCEPT ![s] = <<>>]
  /\ currentUserId' = [currentUserId EXCEPT ![s] = Null]
  /\ isOwner' = [isOwner EXCEPT ![s] = FALSE]

\* CreateProjectModal with its form emptied: setTags([]), setNewTag("")
FormReset(s) ==
  /\ formTags' = [formTags EXCEPT ![s] = <<>>]
  /\ newTag' = [newTag EXCEPT ![s] = NoText]

\* ------------------------------------------------------- identity gate
\* supabase.auth.signOut() of handleSignOut, or the session ending elsewhere
SignOut(s) ==
  /\ auth[s] # Null
  /\ auth' = [auth EXCEPT ![s] = Null]
  /\ UNCHANGED <<backend, user, pc, frame, local, registry>>
  /\ Quiet
  /\ UNCHANGED aside

\* a sign-in through AuthModal
SignIn(s, u) ==
  /\ auth[s] = Null
  /\ auth' = [auth EXCEPT ![s] = u]
  /\ UNCHANGED <<backend, user, pc, frame, local, registry>>
  /\ Quiet
  /\ UNCHANGED aside

\* the onAuthStateChange callback: setUser(session?.user ?? null); Index
\* renders AuthenticatedView only while user is set, so a change of the
\* identity remounts it
AuthStateChange(s) ==
  /\ user[s] # auth[s]
  /\ user' = [user EXCEPT ![s] = auth[s]]
  /\ Unmounted(s)
  /\ Mounted(s, auth[s])
  /\ UNCHANGED <<backend, auth, pc, frame>>
  /\ Quiet
  /\ FormReset(s)
  /\ UNCHANGED rest

\* the page is opened anew: Index reads the session, AuthenticatedView mounts
MountAuthenticatedView(s) ==
  /\ pc[s] = "idle" /\ auth[s] # Null
  /\ user' = [user EXCEPT ![s] = auth[s]]
  /\ Unmounted(s)
  /\ Mounted(s, auth[s])
  /\ UNCHANGED <<backend, auth, pc, frame>>
  /\ Quiet
  /\ FormReset(s)
  /\ UNCHANGED rest

\* setUser(u) of Index: AuthenticatedView is rendered while user is set
SetUser(s, u) ==
  /\ user' = [user EXCEPT ![s] = u]
  /\ IF u = user[s]
       THEN UNCHANGED <<local, registry, tagForm>>
       ELSE Unmounted(s) /\ Mounted(s, u) /\ FormReset(s)

\* Index unmounts: the cleanup of the effect unsubscribes; the state of the
\* page is gone and a getUser() in flight has no page to report to
Teardown(s) ==
  /\ subscribed[s]
  /\ subscribed' = [subscribed EXCEPT ![s] = FALSE]
  /\ fetch' = [fetch EXCEPT ![s] = NoFetch]
  /\ events' = [events EXCEPT ![s] = <<>>]
  /\ SetUser(s, Null)
  /\ UNCHANGED <<backend, auth, pc, frame>>
  /\ Quiet
  /\ UNCHANGED beyond

\* Index mounts: the effect calls getUser() and subscribes
GateMount(s) ==
  /\ ~subscribed[s]
  /\ subscribed' = [subscribed EXCEPT ![s] = TRUE]
  /\ fetch' = [fetch EXCEPT ![s] = [state |-> "issued", user |-> Null]]
  /\ UNCHANGED <<backend, auth, user, pc, frame, local, registry, tagForm, events>>
  /\ Quiet
  /\ UNCHANGED beyond

\* the auth server answers getUser() with the identity of the session
FetchAnswer(s) ==
  /\ fetch[s].state = "issued"
  /\ fetch' = [fetch EXCEPT ![s] = [state |-> "answered", user |-> auth[s]]]
  /\ UNCHANGED <<backend, auth, user, pc, frame, local, registry, tagForm,
                 subscribed, events>>
  /\ Quiet
  /\ UNCHANGED beyond

\* getUser of the effect of Index resuming after the await: setUser(user)
FetchResolve(s) ==
  /\ fetch[s].state = "answered"
  /\ fetch' = [fetch EXCEPT ![s] = NoFetch]
  /\ SetUser(s, fetch[s].user)
  /\ UNCHANGED <<backend, auth, pc, frame, subscribed, events>>
  /\ Quiet
  /\ UNCHANGED beyond

\* the session of the browser changes to u (Null: it ends); a subscribed
\* page is sent the event
SessionChange(s, u) ==
  /\ auth[s] # u /\ (auth[s] = Null \/ u = Null)
  /\ auth' = [auth EXCEPT ![s] = u]
  /\ events' = [events EXCEPT ![s] = IF subscribed[s] THEN Append(@, u) ELSE @]
  /\ UNCHANGED <<backend, user, pc, frame, local, registry, tagForm, subscribed, fetch>>
  /\ Quiet
  /\ UNCHANGED beyond

\* the callback of onAuthStateChange: setUser(session?.user ?? null)
OnAuthStateChange(s) ==
  /\ events[s] # <<>>
  /\ events' = [events EXCEPT ![s] = Tail(@)]
  /\ SetUser(s, Head(events[s]))
  /\ UNCHANGED <<backend, auth, pc, frame, subscribed, fetch>>
  /\ Quiet
  /\ UNCHANGED beyond

\* ProjectCard.checkOwnership settling: setIsOwner(user?.id === project.user_id)
CheckOwnership(s, p) ==
  /\ p \in cardChecking[s]
  /\ cardChecking' = [cardChecking EXCEPT ![s] = @ \ {p}]
  /\ cardIsOwner' = [cardIsOwner EXCEPT ![s] =
                       IF auth[s] # Null /\ auth[s] = CardOwner(filteredProjects[s], p)
                         THEN @ \cup {p} ELSE @ \ {p}]
  /\ UNCHANGED <<backend, auth, user, pc, frame, local, projectList, searchQuery,
                 selectedTags, filteredProjects, pendingInvitationsCount>>
  /\ Quiet
  /\ UNCHANGED aside

\* onChange of the search box: setSearchQuery(e.target.value)
SetSearchQuery(s, query) ==
  /\ pc[s] = "idle" /\ user[s] # Null /\ modal[s] = "none"
  /\ query # searchQuery[s]
  /\ Render(s, projectList[s], query, selectedTags[s])
  /\ UNCHANGED <<backend, auth, user, pc, frame, local, pendingInvitationsCount>>
  /\ Quiet
  /\ UNCHANGED aside

\* toggleTagFilter(tag)
ToggleTagFilter(s, tag) ==
  /\ pc[s] = "idle" /\ user[s] # Null /\ modal[s] = "none"
  /\ LET on == \E i \in 1..Len(selectedTags[s]) : selectedTags[s][i] = tag
         tags == IF on THEN SelectSeq(selectedTags[s], LAMBDA x : x # tag)
                       ELSE Append(selectedTags[s], tag)
     IN Render(s, projectList[s], searchQuery[s], tags)
  /\ UNCHANGED <<backend, auth, user, pc, frame, local, pendingInvitationsCount>>
  /\ Quiet
  /\ UNCHANGED aside

\* ------------------------------------------------------- the clock
Tick ==
  /\ now < MaxTime
  /\ now' = now + 1
  /\ UNCHANGED <<mail, projects, nextProject, project_members, project_invitations,
                 nextInvitation, outbox, auth, user, pc, frame, local, registry>>
  /\ Quiet
  /\ UNCHANGED aside

\* ------------------------------------------------------- project registry
\* a handleSubmit that inserts the name as typed
ProjectInsertValuesUntrimmed(u, form) ==
  [user_id |-> u, name |-> form.name,
   description |-> TrimText(form.description), tags |-> form.tags]

\* the values handleSubmit inserts into projects
ProjectInsertValues(u, form) ==
  [user_id |-> u, name |-> TrimText(form.name),
   description |-> TrimText(form.description), tags |-> form.tags]

\* the row the server stores for an insert into projects
DbProjectRow(values) ==
  [id |-> nextProject, user_id |-> values.user_id, name |-> values.name,
   description |-> values.description, tags |-> values.tags, updated_at |-> now]

\* CreateProjectModal.handleSubmit, create path, with handleProjectCreated
CreateProject(s, form, net) ==
  /\ pc[s] = "idle" /\ user[s] # Null /\ modal[s] = "none"
  /\ IF TrimText(form.name) = <<>>
       THEN /\ toast' = NoToast
            /\ calls' = NoCalls
            /\ UNCHANGED <<projects, nextProject, registry, tagForm>>
       ELSE IF auth[s] = Null
       THEN /\ toast' = Toast(s, "Error")
            /\ calls' = Calls(s, <<>>)
            /\ UNCHANGED <<projects, nextProject, registry, tagForm>>
       ELSE /\ calls' = Calls(s, <<"insert:projects">>)
            /\ IF net = "ok"
                 THEN /\ projects' = projects \cup
                                       {DbProjectRow(ProjectInsertValues(auth[s], form))}
                      /\ nextProject' = nextProject + 1
                      /\ SetProjects(s, <<DbProjectRow(ProjectInsertValues(auth[s], form))>>
                                         \o projectList[s])
                      /\ UNCHANGED pendingInvitationsCount
                      /\ FormReset(s)
                      /\ toast' = Toast(s, "Project created")
                 ELSE /\ toast' = Toast(s, "Error")
                      /\ UNCHANGED <<projects, nextProject, registry, tagForm>>
  /\ UNCHANGED <<mail, project_members, project_invitations, nextInvitation, now,
                 outbox, auth, user, pc, frame, local>>
  /\ UNCHANGED rest

\* the values handleSubmit writes with its update of projects
ProjectUpdateValues(form) ==
  [name |-> TrimText(form.name), description |-> TrimText(form.description),
   tags |-> form.tags]

\* handleEditProject(project) of the card of p, then
\* CreateProjectModal.handleSubmit, update path, with handleProjectCreated:
\* setProjects(projects.map(p => p.id === project.id ? project : p))
UpdateProject(s, p, form, net) ==
  /\ pc[s] = "idle" /\ user[s] # Null /\ modal[s] = "none"
  /\ p \in CardIds(filteredProjects[s])
  /\ IF TrimText(form.name) = <<>>
       THEN /\ toast' = NoToast
            /\ calls' = NoCalls
            /\ UNCHANGED <<projects, registry, tagForm>>
       ELSE IF auth[s] = Null
       THEN /\ toast' = Toast(s, "Error")
            /\ calls' = Calls(s, <<>>)
            /\ UNCHANGED <<projects, registry, tagForm>>
       ELSE /\ calls' = Calls(s, <<"update:projects">>)
            /\ IF net = "ok" /\ DbUpdateAllowed(auth[s], p)
                 THEN LET old == CHOOSE r \in projects : r.id = p
                          data == DbUpdatedRow(old, ProjectUpdateValues(form))
                      IN /\ projects' = (projects \ {old}) \cup {data}
                         /\ SetProjects(s, [i \in 1..Len(projectList[s]) |->
                                              IF projectList[s][i].id = data.id
                                                THEN data ELSE projectList[s][i]])
                         /\ UNCHANGED pendingInvitationsCount
                         /\ FormReset(s)
                         /\ toast' = Toast(s, "Project updated")
                 ELSE /\ toast' = Toast(s, "Error")
                      /\ UNCHANGED <<projects, registry, tagForm>>
  /\ UNCHANGED <<mail, nextProject, project_members, project_invitations,
                 nextInvitation, now, outbox, auth, user, pc, frame, local>>
  /\ UNCHANGED rest

\* tags.includes(tag)
TagsInclude(list, tag) == \E i \in 1..Len(list) : list[i] = tag

\* onChange of the tag input: setNewTag(e.target.value)
SetNewTag(s, text) ==
  /\ pc[s] = "idle" /\ user[s] # Null /\ modal[s] = "none"
  /\ text # newTag[s]
  /\ newTag' = [newTag EXCEPT ![s] = text]
  /\ UNCHANGED <<backend, auth, user, pc, frame, local, registry, formTags>>
  /\ Quiet
  /\ UNCHANGED rest

\* a handleAddTag that compares the tag as typed with the list
HandleAddTagUntrimmedCompare(s, key) ==
  /\ pc[s] = "idle" /\ user[s] # Null /\ modal[s] = "none"
  /\ IF /\ key = "Enter" /\ TrimText(newTag[s]) # <<>>
        /\ ~TagsInclude(formTags[s], newTag[s])
       THEN /\ formTags' = [formTags EXCEPT ![s] = Append(@, TrimText(newTag[s]))]
            /\ newTag' = [newTag EXCEPT ![s] = NoText]
       ELSE UNCHANGED tagForm
  /\ UNCHANGED <<backend, auth, user, pc, frame, local, registry>>
  /\ Quiet
  /\ UNCHANGED rest

\* handleAddTag(e), the keydown handler of the tag input
HandleAddTag(s, key) ==
  /\ pc[s] = "idle" /\ user[s] # Null /\ modal[s] = "none"
  /\ IF /\ key = "Enter" /\ TrimText(newTag[s]) # <<>>
        /\ ~TagsInclude(formTags[s], TrimText(newTag[s]))
       THEN /\ formTags' = [formTags EXCEPT ![s] = Append(@, TrimText(newTag[s]))]
            /\ newTag' = [newTag EXCEPT ![s] = NoText]
       ELSE UNCHANGED tagForm
  /\ UNCHANGED <<backend, auth, user, pc, frame, local, registry>>
  /\ Quiet
  /\ UNCHANGED rest

\* handleRemoveTag(tagToRemove), the button of a tag badge
HandleRemoveTag(s, tagToRemove) ==
  /\ pc[s] = "idle" /\ user[s] # Null /\ modal[s] = "none"
  /\ TagsInclude(formTags[s], tagToRemove)
  /\ formTags' = [formTags EXCEPT ![s] = SelectSeq(@, LAMBDA tag : tag # tagToRemove)]
  /\ UNCHANGED <<backend, auth, user, pc, frame, local, registry, newTag>>
  /\ Quiet
  /\ UNCHANGED rest

\* CreateProjectModal.handleClose while no project is edited
HandleClose(s) ==
  /\ pc[s] = "idle" /\ user[s] # Null /\ modal[s] = "none"
  /\ FormReset(s)
  /\ UNCHANGED <<backend, auth, user, pc, frame, local, registry>>
  /\ Quiet
  /\ UNCHANGED rest

\* a mutation of the project list in flight: the handler, its argument, and
\* the projects and editingProject of the render whose handler was called
InFlight(op, id, form, list) == [op |-> op, id |-> id, form |-> form, projects |-> list]
NoForm == [name |-> NoText, description |-> NoText, tags |-> <<>>]

\* a call of a handler of the project list puts a mutation in flight
Call(s, r) ==
  /\ pc[s] = "idle" /\ user[s] # Null /\ modal[s] = "none"
  /\ cardChecking[s] = {}
  /\ Cardinality(inflight[s]) < MaxInFlight
  /\ r \notin inflight[s]
  /\ inflight' = [inflight EXCEPT ![s] = @ \cup {r}]
  /\ Quiet
  /\ UNCHANGED <<backend, auth, user, pc, frame, local, registry, tagForm, gate,
                 faults, busy>>

\* the answer of a mutation leaves the backend apart from tables, the
\* identity and the modals alone
Answered(s, r) ==
  /\ r \in inflight[s]
  /\ inflight' = [inflight EXCEPT ![s] = @ \ {r}]
  /\ UNCHANGED <<mail, nextInvitation, now, outbox, auth, user, pc, frame, local,
                 pendingInvitationsCount, gate, faults, busy>>

\* handleDeleteProject(id) up to its await: AlertDialogAction of the card
HandleDeleteProjectCall(s, p) ==
  /\ p \in CardIds(filteredProjects[s]) /\ p \in cardIsOwner[s]
  /\ Call(s, InFlight("delete", p, NoForm, projectList[s]))

\* handleDeleteProject after its await: the delete is answered and the
\* handler goes on with the projects of the render it was called in. The
\* backend's write and the continuation are one step; the order of the
\* answers of two mutations is free.
HandleDeleteProjectAnswer(s, r, net) ==
  /\ r.op = "delete" /\ Answered(s, r)
  /\ calls' = Calls(s, <<"delete:projects">>)
  /\ IF net = "ok" /\ DbDeleteAllowed(auth[s], r.id)
       THEN /\ projects' = {x \in projects : x.id # r.id}
            /\ project_members' = DbCascadeMembers(r.id)
            /\ project_invitations' = DbCascadeInvitations(r.id)
            /\ SetProjects(s, SelectSeq(r.projects, LAMBDA x : x.id # r.id))
            /\ toast' = Toast(s, "Project deleted")
       ELSE /\ toast' = Toast(s, "Error")
            /\ UNCHANGED <<projects, project_members, project_invitations,
                           projectList, searchQuery, selectedTags,
                           filteredProjects, cardIsOwner, cardChecking>>
  /\ UNCHANGED <<nextProject, tagForm>>

\* handleQuitProject(id) up to its await
HandleQuitProjectCall(s, p) ==
  /\ p \in CardIds(filteredProjects[s]) /\ p \notin cardIsOwner[s]
  /\ Call(s, InFlight("quit", p, NoForm, projectList[s]))

\* handleQuitProject after its await
HandleQuitProjectAnswer(s, r, net) ==
  /\ r.op = "quit" /\ Answered(s, r)
  /\ calls' = Calls(s, <<"delete:project_members">>)
  /\ IF net = "ok" /\ auth[s] # Null
       THEN /\ project_members' =
                 {m \in project_members :
                    ~(m.project_id = r.id /\ m.user_id = user[s] /\ m.user_id = auth[s])}
            /\ SetProjects(s, SelectSeq(r.projects, LAMBDA x : x.id # r.id))
            /\ toast' = Toast(s, "Left project")
       ELSE /\ toast' = Toast(s, "Error")
            /\ UNCHANGED <<project_members, projectList, searchQuery, selectedTags,
                           filteredProjects, cardIsOwner, cardChecking>>
  /\ UNCHANGED <<projects, nextProject, project_invitations, tagForm>>

\* handleSubmit of CreateProjectModal up to its awaits, with a name that is
\* not blank: editing is the id of editingProject, 0 for a new project. The
\* button is disabled while isLoading, so one submit is in flight at most.
HandleSubmitCall(s, editing, form) ==
  /\ TrimText(form.name) # <<>>
  /\ editing # 0 => editing \in CardIds(filteredProjects[s])
  /\ editing = 0 => nextProject <= MaxInFlightProjects
  /\ \A r \in inflight[s] : r.op \notin {"create", "update"}
  /\ Call(s, InFlight(IF editing = 0 THEN "create" ELSE "update", editing, form,
                      projectList[s]))

\* handleSubmit after its awaits, and handleProjectCreated of the render the
\* submit was called in
HandleSubmitAnswer(s, r, net) ==
  /\ r.op \in {"create", "update"} /\ Answered(s, r)
  /\ IF auth[s] = Null
       THEN /\ toast' = Toast(s, "Error")
            /\ calls' = Calls(s, <<>>)
            /\ UNCHANGED <<projects, nextProject, projectList, searchQuery,
                           selectedTags, filteredProjects, cardIsOwner,
                           cardChecking, tagForm>>
       ELSE IF r.op = "create"
       THEN /\ calls' = Calls(s, <<"insert:projects">>)
            /\ IF net = "ok"
                 THEN LET data == DbProjectRow(ProjectInsertValues(auth[s], r.form))
                      IN /\ projects' = projects \cup {data}
                         /\ nextProject' = nextProject + 1
                         /\ SetProjects(s, <<data>> \o r.projects)
                         /\ FormReset(s)
                         /\ toast' = Toast(s, "Project created")
                 ELSE /\ toast' = Toast(s, "Error")
                      /\ UNCHANGED <<projects, nextProject, projectList, searchQuery,
                                     selectedTags, filteredProjects, cardIsOwner,
                                     cardChecking, tagForm>>
       ELSE /\ calls' = Calls(s, <<"update:projects">>)
            /\ UNCHANGED nextProject
            /\ IF net = "ok" /\ DbUpdateAllowed(auth[s], r.id)
                 THEN LET old == CHOOSE x \in projects : x.id = r.id
                          data == DbUpdatedRow(old, ProjectUpdateValues(r.form))
                      IN /\ projects' = (projects \ {old}) \cup {data}
                         /\ SetProjects(s, [i \in 1..Len(r.projects) |->
                                              IF r.projects[i].id = data.id
                                                THEN data ELSE r.projects[i]])
                         /\ FormReset(s)
                         /\ toast' = Toast(s, "Project updated")
                 ELSE /\ toast' = Toast(s, "Error")
                      /\ UNCHANGED <<projects, projectList, searchQuery,
                                     selectedTags, filteredProjects, cardIsOwner,
                                     cardChecking, tagForm>>
  /\ UNCHANGED <<project_members, project_invitations>>

\* a handleDeleteProject that takes the project off the list before it looks
\* at the error of the delete
DeleteProjectOptimistic(s, p, net) ==
  /\ pc[s] = "idle" /\ user[s] # Null /\ modal[s] = "none"
  /\ p \in CardIds(filteredProjects[s]) /\ p \in cardIsOwner[s]
  /\ calls' = Calls(s, <<"delete:projects">>)
  /\ SetProjects(s, SelectSeq(projectList[s], LAMBDA x : x.id # p))
  /\ IF net = "ok" /\ DbDeleteAllowed(auth[s], p)
       THEN /\ projects' = {r \in projects : r.id # p}
            /\ project_members' = DbCascadeMembers(p)
            /\ project_invitations' = DbCascadeInvitations(p)
            /\ toast' = Toast(s, "Project deleted")
       ELSE /\ toast' = Toast(s, "Error")
            /\ UNCHANGED <<projects, project_members, project_invitations>>
  /\ UNCHANGED <<mail, nextProject, nextInvitation, now, outbox, auth, user, pc,
                 frame, local, pendingInvitationsCount>>
  /\ UNCHANGED aside

\* AuthenticatedView.handleDeleteProject; the card offers Delete while its
\* isOwner is true
DeleteProject(s, p, net) ==
  /\ pc[s] = "idle" /\ user[s] # Null /\ modal[s] = "none"
  /\ p \in CardIds(filteredProjects[s]) /\ p \in cardIsOwner[s]
  /\ calls' = Calls(s, <<"delete:projects">>)
  /\ IF net = "ok" /\ DbDeleteAllowed(auth[s], p)
       THEN /\ projects' = {r \in projects : r.id # p}
            /\ project_members' = DbCascadeMembers(p)
            /\ project_invitations' = DbCascadeInvitations(p)
            /\ SetProjects(s, SelectSeq(projectList[s], LAMBDA x : x.id # p))
            /\ toast' = Toast(s, "Project deleted")
       ELSE /\ toast' = Toast(s, "Error")
            /\ UNCHANGED <<projects, project_members, project_invitations,
                           projectList, searchQuery, selectedTags,
                           filteredProjects, cardIsOwner, cardChecking>>
  /\ UNCHANGED <<mail, nextProject, nextInvitation, now, outbox, auth, user, pc,
                 frame, local, pendingInvitationsCount>>
  /\ UNCHANGED aside

\* AuthenticatedView.handleQuitProject: deletes the rows of project_members
\* with project_id = id and user_id = user.id (user is the React state); the
\* card offers Quit while its isOwner is false
QuitProject(s, p, net) ==
  /\ pc[s] = "idle" /\ user[s] # Null /\ modal[s] = "none"
  /\ p \in CardIds(filteredProjects[s]) /\ p \notin cardIsOwner[s]
  /\ calls' = Calls(s, <<"delete:project_members">>)
  /\ IF net = "ok" /\ auth[s] # Null
       THEN /\ project_members' =
                 {m \in project_members :
                    ~(m.project_id = p /\ m.user_id = user[s] /\ m.user_id = auth[s])}
            /\ SetProjects(s, SelectSeq(projectList[s], LAMBDA x : x.id # p))
            /\ toast' = Toast(s, "Left project")
       ELSE /\ toast' = Toast(s, "Error")
            /\ UNCHANGED <<project_members, projectList, searchQuery, selectedTags,
                           filteredProjects, cardIsOwner, cardChecking>>
  /\ UNCHANGED <<mail, projects, nextProject, project_invitations, nextInvitation,
                 now, outbox, auth, user, pc, frame, local, pendingInvitationsCount>>
  /\ UNCHANGED aside

\* ------------------------------------------------------- members modal
\* ProjectCard: setShowMembersModal(true); the effect of ProjectMembersModal
\* starts loadMembersAndInvitations() and checkIfOwner()
OpenMembersModal(s, p) ==
  /\ pc[s] = "idle" /\ user[s] # Null /\ modal[s] = "none"
  /\ p \in CardIds(filteredProjects[s])
  /\ modal' = [modal EXCEPT ![s] = "members"]
  /\ projectId' = [projectId EXCEPT ![s] = p]
  /\ pc' = [pc EXCEPT ![s] = "load_owner"]
  /\ UNCHANGED <<backend, auth, user, frame, members, invitations,
                 userInvitations, currentUserId, isOwner, registry>>
  /\ Quiet
  /\ UNCHANGED aside

\* onClose of either modal
CloseModal(s) ==
  /\ pc[s] = "idle" /\ modal[s] # "none"
  /\ Unmounted(s)
  /\ UNCHANGED <<backend, auth, user, pc, frame, registry>>
  /\ Quiet
  /\ UNCHANGED aside

\* loadMembersAndInvitations (pc "load"), together with checkIfOwner
\* (pc "load_owner")
LoadMembersAndInvitations(s) ==
  /\ pc[s] \in {"load", "load_owner"}
  /\ pc' = [pc EXCEPT ![s] = "idle"]
  /\ IF modal[s] # "members"
       THEN /\ toast' = NoToast
            /\ UNCHANGED <<members, invitations, currentUserId, isOwner>>
       ELSE /\ currentUserId' = [currentUserId EXCEPT ![s] = auth[s]]
            /\ IF projectId[s] \notin ProjectIds
                 THEN /\ toast' = Toast(s, "Error")
                      /\ UNCHANGED <<members, invitations, isOwner>>
                 ELSE /\ members' = [members EXCEPT ![s] = AllMembers(projectId[s])]
                      /\ invitations' =
                           [invitations EXCEPT ![s] = PendingOfProject(projectId[s])]
                      /\ isOwner' =
                           IF pc[s] = "load_owner" /\ auth[s] # Null
                             THEN [isOwner EXCEPT ![s] = auth[s] \in OwnersOf(projectId[s])]
                             ELSE isOwner
                      /\ toast' = NoToast
  /\ calls' = NoCalls
  /\ UNCHANGED <<backend, auth, user, frame, modal, projectId,
                 userInvitations, registry>>
  /\ UNCHANGED aside

\* ------------------------------------------------------- emailService.ts
\* error.message of the value emailjs.send rejected with
ErrorMessage(out) == IF out = "error" THEN "message" ELSE Undefined

\* sendInvitationEmail whose catch block rethrows
SendInvitationEmailRethrow(data, out) ==
  [threw |-> (data.email = Undefined \/ out # "ok"),
   success |-> (data.email # Undefined /\ out = "ok"),
   response |-> IF data.email # Undefined /\ out = "ok" THEN "response" ELSE Undefined,
   error |-> Undefined,
   sent |-> data.email # Undefined,
   params |-> Undefined]

\* a || b of JavaScript on the values of the model
OrElse(a, b) == IF a \in {Undefined, Null, ""} THEN b ELSE a

\* sendInvitationEmail(data) when emailjs.send ends with out: the value the
\* returned promise settles with; threw says it rejected
SendInvitationEmail(data, out) ==
  IF data.email = Undefined
    THEN \* data.email.split throws a TypeError inside the try block
         [threw |-> FALSE, success |-> FALSE, response |-> Undefined,
          error |-> "message", sent |-> FALSE, params |-> Undefined]
    ELSE [threw |-> FALSE, success |-> (out = "ok"),
          response |-> IF out = "ok" THEN "response" ELSE Undefined,
          error |-> IF out = "ok" THEN Undefined ELSE ErrorMessage(out),
          sent |-> TRUE,
          params |-> [to_email |-> data.email,
                      inviter_name |-> OrElse(data.inviterUsername, data.inviterName),
                      token |-> data.invitationToken]]

\* sendContactEmail(data) when emailjs.send ends with out
SendContactEmail(data, out) ==
  [threw |-> FALSE, success |-> (out = "ok"),
   response |-> IF out = "ok" THEN "response" ELSE Undefined,
   error |-> IF out = "ok" THEN Undefined ELSE ErrorMessage(out),
   sent |-> TRUE,
   params |-> [name |-> data.name, email |-> data.email,
               message |-> data.message]]

\* the arguments a caller can pass to sendInvitationEmail
InvitationEmailInputs ==
  [email : {"alice@x.io", "bob@x.io", Undefined},
   inviterName : {"alice@x.io", "Someone"},
   inviterUsername : {Undefined, "", "alice"},
   invitationToken : 1..MaxInvitations]

\* the arguments a caller can pass to sendContactEmail
ContactEmailInputs ==
  [name : {"", "Ann"}, email : {Undefined, "ann@x.io"}, message : {"", "hello"}]

\* a call of sendInvitationEmail that has settled
CallSendInvitationEmail(data, out) ==
  /\ mail' = [fn |-> "sendInvitationEmail", data |-> data, out |-> out,
              result |-> SendInvitationEmail(data, out)]
  /\ UNCHANGED <<projects, nextProject, project_members, project_invitations,
                 nextInvitation, now, outbox, auth, user, pc, frame, local, registry>>
  /\ Quiet
  /\ UNCHANGED aside

\* a call of sendContactEmail that has settled (ContactForm.handleSubmit)
CallSendContactEmail(data, out) ==
  /\ mail' = [fn |-> "sendContactEmail", data |-> data, out |-> out,
              result |-> SendContactEmail(data, out)]
  /\ UNCHANGED <<projects, nextProject, project_members, project_invitations,
                 nextInvitation, now, outbox, auth, user, pc, frame, local, registry>>
  /\ Quiet
  /\ UNCHANGED aside

\* ------------------------------------------------------- handleInvite
\* handleInvite without the comparison of the target email with user.email
NoSelfInviteByEmail(targetEmail, u) == FALSE

\* the self-invite checks of handleInvite
SelfInviteByEmail(targetEmail, u) == targetEmail = EmailOf(u)
SelfInviteByProfile(profile, u) == profile.user_id = u

\* .from('profiles').select('email, user_id').eq('username', input).maybeSingle()
ProfileByUsername(input) == {p \in Profiles : p.username = input}

\* handleInvite storing what was typed when the input is a username
ResolveInviteTargetKeepsUsername(u, raw) ==
  LET input == Trim(raw) IN
  IF input = "" THEN [err |-> "Input required", target |-> Null]
  ELSE IF u = Null THEN [err |-> "Authentication error", target |-> Null]
  ELSE IF EmailRegexTest(input)
    THEN IF SelfInviteByEmail(ToLowerCase(input), u)
           THEN [err |-> "Invalid invitation", target |-> Null]
           ELSE [err |-> Null, target |-> ToLowerCase(input)]
    ELSE LET found == ProfileByUsername(input) IN
         IF found = {} THEN [err |-> "User not found", target |-> Null]
         ELSE LET profile == CHOOSE x \in found : TRUE IN
              IF SelfInviteByProfile(profile, u)
                THEN [err |-> "Invalid invitation", target |-> Null]
                ELSE [err |-> Null, target |-> input]

\* handleInvite up to the insert: the toast of the early return, or the
\* target email
ResolveInviteTarget(u, raw) ==
  LET input == Trim(raw) IN
  IF input = "" THEN [err |-> "Input required", target |-> Null]
  ELSE IF u = Null THEN [err |-> "Authentication error", target |-> Null]
  ELSE IF EmailRegexTest(input)
    THEN IF SelfInviteByEmail(ToLowerCase(input), u)
           THEN [err |-> "Invalid invitation", target |-> Null]
           ELSE [err |-> Null, target |-> ToLowerCase(input)]
    ELSE LET found == ProfileByUsername(input) IN
         IF found = {} THEN [err |-> "User not found", target |-> Null]
         ELSE LET profile == CHOOSE x \in found : TRUE IN
              IF SelfInviteByProfile(profile, u)
                THEN [err |-> "Invalid invitation", target |-> Null]
                ELSE [err |-> Null, target |-> profile.email]

\* the values handleInvite inserts into project_invitations
InvitationInsertValues(p, targetEmail, u) ==
  [project_id |-> p, email |-> targetEmail, role |-> "member", invited_by |-> u]

\* handleInvite without the branch for error code 23505
InsertErrorToastGeneric(code) == "Error"

\* the toast handleInvite shows for an error of the insert
InsertErrorToast(code) == IF code = "23505" THEN "Already invited" ELSE "Error"

\* a handleInvite that goes on to the mail when the insert was a duplicate
HandleInviteMailsDuplicate(s, raw, net) ==
  /\ pc[s] = "idle" /\ user[s] # Null
  /\ modal[s] = "members" /\ isOwner[s]
  /\ LET r == ResolveInviteTarget(auth[s], raw)
         p == projectId[s]
     IN IF r.err # Null
          THEN /\ toast' = Toast(s, r.err)
               /\ calls' = Calls(s, <<>>)
               /\ UNCHANGED <<project_invitations, nextInvitation, pc, frame>>
          ELSE /\ nextInvitation <= MaxInvitations
               /\ calls' = Calls(s, <<"insert:project_invitations">>)
               /\ IF net = "fails" \/ p \notin ProjectIds
                    THEN /\ toast' = Toast(s, InsertErrorToast("other"))
                         /\ UNCHANGED <<project_invitations, nextInvitation, pc, frame>>
                    ELSE IF DbDuplicatePending(p, r.target)
                    THEN /\ toast' = Toast(s, InsertErrorToast("23505"))
                         /\ pc' = [pc EXCEPT ![s] = "invite_email"]
                         /\ frame' = [frame EXCEPT ![s] =
                              [inv |-> CHOOSE x \in project_invitations :
                                         /\ x.project_id = p /\ x.email = r.target
                                         /\ Pending(x),
                               user |-> auth[s], target |-> r.target,
                               calls |-> <<"insert:project_invitations">>]]
                         /\ UNCHANGED <<project_invitations, nextInvitation>>
                    ELSE LET row == DbInvitationRow(
                                      InvitationInsertValues(p, r.target, auth[s]))
                         IN /\ project_invitations' = project_invitations \cup {row}
                            /\ nextInvitation' = nextInvitation + 1
                            /\ pc' = [pc EXCEPT ![s] = "invite_email"]
                            /\ frame' = [frame EXCEPT ![s] =
                                 [inv |-> row, user |-> auth[s], target |-> r.target,
                                  calls |-> <<"insert:project_invitations">>]]
                            /\ toast' = NoToast
  /\ UNCHANGED <<mail, projects, nextProject, project_members, now, outbox, auth,
                 user, local, registry>>
  /\ UNCHANGED aside

\* handleInvite, from the click to the settled insert
HandleInvite(s, raw, net) ==
  /\ pc[s] = "idle" /\ user[s] # Null
  /\ modal[s] = "members" /\ isOwner[s]
  /\ LET r == ResolveInviteTarget(auth[s], raw)
         p == projectId[s]
     IN IF r.err # Null
          THEN /\ toast' = Toast(s, r.err)
               /\ calls' = Calls(s, <<>>)
               /\ UNCHANGED <<project_invitations, nextInvitation, pc, frame>>
          ELSE /\ nextInvitation <= MaxInvitations
               /\ calls' = Calls(s, <<"insert:project_invitations">>)
               /\ IF net = "fails" \/ p \notin ProjectIds
                    THEN /\ toast' = Toast(s, InsertErrorToast("other"))
                         /\ UNCHANGED <<project_invitations, nextInvitation, pc, frame>>
                    ELSE IF DbDuplicatePending(p, r.target)
                    THEN /\ toast' = Toast(s, InsertErrorToast("23505"))
                         /\ UNCHANGED <<project_invitations, nextInvitation, pc, frame>>
                    ELSE LET row == DbInvitationRow(
                                      InvitationInsertValues(p, r.target, auth[s]))
                         IN /\ project_invitations' = project_invitations \cup {row}
                            /\ nextInvitation' = nextInvitation + 1
                            /\ pc' = [pc EXCEPT ![s] = "invite_email"]
                            /\ frame' = [frame EXCEPT ![s] =
                                 [inv |-> row, user |-> auth[s], target |-> r.target,
                                  calls |-> <<"insert:project_invitations">>]]
                            /\ toast' = NoToast
  /\ UNCHANGED <<mail, projects, nextProject, project_members, now, outbox, auth,
                 user, local, registry>>
  /\ UNCHANGED aside

\* the awaits of handleInvite that come before its try block
InviteAwaitsBeforeTry == {"getUser", "profiles"}

\* handleInvite when supabase.auth.getUser() or the query of profiles by
\* username rejects: both awaits are outside the try block, so the promise
\* of handleInvite rejects and nothing catches it
HandleInviteRejected(s, raw, at) ==
  /\ pc[s] = "idle" /\ user[s] # Null
  /\ modal[s] = "members" /\ isOwner[s]
  /\ Trim(raw) # ""
  /\ at = "profiles" => auth[s] # Null /\ ~EmailRegexTest(Trim(raw))
  /\ unhandled' = [unhandled EXCEPT ![s] = @ \cup {"handleInvite"}]
  /\ toast' = NoToast
  /\ calls' = Calls(s, <<>>)
  /\ UNCHANGED <<backend, auth, user, pc, frame, local, registry, tagForm, gate,
                 after>>

\* handleInvite reporting every outcome of the mail as sent
InviteEmailToastAlwaysSent(lookup, res) == "Invitation sent"

\* outcome of the query for the inviter's own profile: a row, no row (or an
\* error object), or a rejected promise
LookupOutcomes == {"ok", "null", "rejects"}

\* the toast of handleInvite after the mail: lookup is the outcome of the
\* profile query, res the result of sendInvitationEmail
InviteEmailToast(lookup, res) ==
  IF lookup = "rejects" \/ res.threw THEN "Invitation created"
  ELSE IF ~res.success THEN "Email notification failed"
  ELSE "Invitation sent"

\* handleInvite after the insert: the profile query, sendInvitationEmail,
\* the toast, setInviteEmail("") and the start of loadMembersAndInvitations()
InviteEmail(s, lookup, out) ==
  /\ pc[s] = "invite_email"
  /\ LET data == [email |-> frame[s].target,
                  inviterName |-> EmailOf(frame[s].user),
                  inviterUsername |->
                    IF lookup = "ok"
                      THEN (CHOOSE x \in Profiles : x.user_id = frame[s].user).username
                      ELSE Undefined,
                  invitationToken |-> frame[s].inv.token]
         res == SendInvitationEmail(data, out)
     IN /\ toast' = Toast(s, InviteEmailToast(lookup, res))
        /\ IF lookup = "rejects"
             THEN /\ calls' = Calls(s, frame[s].calls)
                  /\ UNCHANGED outbox
             ELSE /\ calls' = Calls(s, Append(frame[s].calls, "email"))
                  /\ outbox' = IF res.sent /\ out = "ok"
                                 THEN outbox \cup {[to_email |-> res.params.to_email,
                                                    token |-> res.params.token]}
                                 ELSE outbox
  /\ pc' = [pc EXCEPT ![s] = "load"]
  /\ frame' = [frame EXCEPT ![s] = NoFrame]
  /\ UNCHANGED <<mail, projects, nextProject, project_members, project_invitations,
                 nextInvitation, now, auth, user, local, registry>>
  /\ UNCHANGED aside

\* handleCancelInvitation(invitation.id) for a row of the modal's list
HandleCancelInvitation(s, k, net) ==
  /\ pc[s] = "idle" /\ user[s] # Null /\ modal[s] = "members"
  /\ k \in 1..Len(invitations[s])
  /\ LET id == invitations[s][k].id IN
     /\ calls' = Calls(s, <<"delete:project_invitations">>)
     /\ IF net = "ok" /\ DbDeleteInvitationAllowed(auth[s], id)
          THEN /\ project_invitations' = {r \in project_invitations : r.id # id}
               /\ toast' = Toast(s, "Invitation cancelled")
               /\ pc' = [pc EXCEPT ![s] = "load"]
          ELSE /\ toast' = Toast(s, "Error")
               /\ UNCHANGED <<project_invitations, pc>>
  /\ UNCHANGED <<mail, projects, nextProject, project_members, nextInvitation, now,
                 outbox, auth, user, frame, local, registry>>
  /\ UNCHANGED aside

\* the Make Owner button is rendered for member m
MakeOwnerShown(s, m) ==
  /\ m \in members[s] /\ m.role = "member"
  /\ currentUserId[s] # Null
  /\ \E o \in members[s] : o.role = "owner" /\ o.user_id = currentUserId[s]

\* the arguments of the rpc of handleTransferOwnership
TransferArgs(p, newOwnerId) == [p_project_id |-> p, p_new_owner_id |-> newOwnerId]

\* handleTransferOwnership written as two client writes instead of the rpc
TransferByTwoWrites(s, m, net) ==
  /\ pc[s] = "idle" /\ user[s] # Null /\ modal[s] = "members"
  /\ MakeOwnerShown(s, m)
  /\ calls' = Calls(s, <<"update:projects", "delete:project_members">>)
  /\ IF net = "ok" /\ DbTransferAllowed(auth[s], projectId[s])
       THEN /\ projects' = DbTransferProjects(projectId[s], m.user_id)
            /\ project_members' = DbTransferMembers(projectId[s], m.user_id)
            /\ toast' = Toast(s, "Ownership transferred")
            /\ pc' = [pc EXCEPT ![s] = "load_owner"]
       ELSE /\ toast' = Toast(s, "Error")
            /\ UNCHANGED <<projects, project_members, pc>>
  /\ UNCHANGED <<mail, nextProject, project_invitations, nextInvitation, now, outbox,
                 auth, user, frame, local, registry>>
  /\ UNCHANGED aside

\* handleTransferOwnership that gives the former owner a membership row
\* after the rpc
TransferDemotesFormerOwner(s, m, net) ==
  /\ pc[s] = "idle" /\ user[s] # Null /\ modal[s] = "members"
  /\ MakeOwnerShown(s, m)
  /\ IF net = "ok" /\ DbTransferAllowed(auth[s], projectId[s])
       THEN /\ calls' = Calls(s, <<"rpc:transfer_project_ownership",
                                   "insert:project_members">>)
            /\ projects' = DbTransferProjects(projectId[s], m.user_id)
            /\ project_members' =
                 DbTransferMembers(projectId[s], m.user_id) \cup
                   {[project_id |-> projectId[s], user_id |-> auth[s],
                     role |-> "member", email |-> EmailOf(auth[s]),
                     invited_by |-> m.user_id, n |-> 1]}
            /\ toast' = Toast(s, "Ownership transferred")
            /\ pc' = [pc EXCEPT ![s] = "load_owner"]
       ELSE /\ calls' = Calls(s, <<"rpc:transfer_project_ownership">>)
            /\ toast' = Toast(s, "Error")
            /\ UNCHANGED <<projects, project_members, pc>>
  /\ UNCHANGED <<mail, nextProject, project_invitations, nextInvitation, now, outbox,
                 auth, user, frame, local, registry>>
  /\ UNCHANGED aside

\* handleTransferOwnership(member.user_id)
HandleTransferOwnership(s, m, net) ==
  /\ pc[s] = "idle" /\ user[s] # Null /\ modal[s] = "members"
  /\ MakeOwnerShown(s, m)
  /\ LET args == TransferArgs(projectId[s], m.user_id) IN
     /\ calls' = Calls(s, <<"rpc:transfer_project_ownership">>)
     /\ IF net = "ok" /\ DbTransferAllowed(auth[s], args.p_project_id)
          THEN /\ projects' = DbTransferProjects(args.p_project_id, args.p_new_owner_id)
               /\ project_members' = DbTransferMembers(args.p_project_id, args.p_new_owner_id)
               /\ toast' = Toast(s, "Ownership transferred")
               /\ pc' = [pc EXCEPT ![s] = "load_owner"]
          ELSE /\ toast' = Toast(s, "Error")
               /\ UNCHANGED <<projects, project_members, pc>>
  /\ UNCHANGED <<mail, nextProject, project_invitations, nextInvitation, now, outbox,
                 auth, user, frame, local, registry>>
  /\ UNCHANGED aside

\* ------------------------------------------------------- invitations modal
\* AuthenticatedView: setShowInvitations(true); the effect of
\* UserInvitationsModal starts loadInvitations()
OpenInvitationsModal(s) ==
  /\ pc[s] = "idle" /\ user[s] # Null /\ modal[s] = "none"
  /\ modal' = [modal EXCEPT ![s] = "invitations"]
  /\ pc' = [pc EXCEPT ![s] = "load_inv"]
  /\ UNCHANGED <<backend, auth, user, frame, projectId, members, invitations,
                 userInvitations, currentUserId, isOwner, registry>>
  /\ Quiet
  /\ UNCHANGED aside

\* UserInvitationsModal.loadInvitations (pc "load_inv"); after an accepted or
\* declined invitation together with onInvitationUpdate (pc "load_inv_update")
LoadInvitations(s) ==
  /\ pc[s] \in {"load_inv", "load_inv_update"}
  /\ pc' = [pc EXCEPT ![s] = "idle"]
  /\ userInvitations' =
       IF modal[s] = "invitations" /\ auth[s] # Null
         THEN [userInvitations EXCEPT ![s] = PendingOfEmail(EmailOf(auth[s]))]
         ELSE userInvitations
  /\ IF pc[s] = "load_inv_update" /\ user[s] # Null
       THEN LoadRegistry(s)
       ELSE UNCHANGED registry
  /\ UNCHANGED <<backend, auth, user, frame, modal, projectId, members,
                 invitations, currentUserId, isOwner>>
  /\ Quiet
  /\ UNCHANGED aside

\* handleAcceptInvitation recording the accepting user as the inviter
MemberInsertValuesSelfInvited(invitation, u) ==
  [project_id |-> invitation.project_id, user_id |-> u,
   role |-> invitation.role, email |-> EmailOf(u),
   invited_by |-> u]

\* the values handleAcceptInvitation inserts into project_members
MemberInsertValues(invitation, u) ==
  [project_id |-> invitation.project_id, user_id |-> u,
   role |-> invitation.role, email |-> EmailOf(u),
   invited_by |-> invitation.invited_by]

\* handleAcceptInvitation(invitation) up to the settled insert into
\* project_members
HandleAcceptInvitation(s, k, net) ==
  /\ pc[s] = "idle" /\ user[s] # Null /\ modal[s] = "invitations"
  /\ k \in 1..Len(userInvitations[s])
  /\ LET invitation == userInvitations[s][k] IN
     IF auth[s] = Null
       THEN /\ toast' = Toast(s, "Authentication error")
            /\ calls' = Calls(s, <<>>)
            /\ UNCHANGED <<project_members, pc, frame>>
       ELSE /\ DbMemberRow(MemberInsertValues(invitation, auth[s])).n <= MaxMemberRows
            /\ calls' = Calls(s, <<"insert:project_members">>)
            /\ IF /\ net = "ok"
                  /\ invitation.project_id \in ProjectIds
                  /\ DbAcceptAllowed(auth[s], invitation)
                 THEN /\ project_members' = project_members \cup
                           {DbMemberRow(MemberInsertValues(invitation, auth[s]))}
                      /\ pc' = [pc EXCEPT ![s] = "accept_update"]
                      /\ frame' = [frame EXCEPT ![s] =
                           [inv |-> invitation, user |-> auth[s], target |-> Null,
                            calls |-> <<"insert:project_members">>]]
                      /\ toast' = NoToast
                 ELSE /\ toast' = Toast(s, "Error")
                      /\ UNCHANGED <<project_members, pc, frame>>
  /\ UNCHANGED <<mail, projects, nextProject, project_invitations, nextInvitation,
                 now, outbox, auth, user, local, registry>>
  /\ UNCHANGED aside

\* handleAcceptInvitation with a compensating delete of the membership when
\* the update of accepted_at fails
AcceptUpdateRollback(s, net) ==
  /\ pc[s] = "accept_update"
  /\ calls' = Calls(s, Append(frame[s].calls, "update:project_invitations"))
  /\ frame' = [frame EXCEPT ![s] = NoFrame]
  /\ IF net = "ok" /\ auth[s] # Null
       THEN /\ project_invitations' =
                 {IF r.id = frame[s].inv.id /\ r.email = EmailOf(auth[s])
                    THEN [r EXCEPT !.accepted_at = <<now>>] ELSE r
                  : r \in project_invitations}
            /\ toast' = Toast(s, "Invitation accepted")
            /\ pc' = [pc EXCEPT ![s] = "load_inv_update"]
            /\ UNCHANGED project_members
       ELSE /\ toast' = Toast(s, "Error")
            /\ pc' = [pc EXCEPT ![s] = "idle"]
            /\ project_members' =
                 {m \in project_members :
                    ~(m.project_id = frame[s].inv.project_id /\ m.user_id = frame[s].user)}
            /\ UNCHANGED project_invitations
  /\ UNCHANGED <<mail, projects, nextProject, nextInvitation, now,
                 outbox, auth, user, local, registry>>
  /\ UNCHANGED aside

\* handleAcceptInvitation after the insert: the update of accepted_at
AcceptUpdate(s, net) ==
  /\ pc[s] = "accept_update"
  /\ calls' = Calls(s, Append(frame[s].calls, "update:project_invitations"))
  /\ frame' = [frame EXCEPT ![s] = NoFrame]
  /\ IF net = "ok" /\ auth[s] # Null
       THEN /\ project_invitations' =
                 {IF r.id = frame[s].inv.id /\ r.email = EmailOf(auth[s])
                    THEN [r EXCEPT !.accepted_at = <<now>>] ELSE r
                  : r \in project_invitations}
            /\ toast' = Toast(s, "Invitation accepted")
            /\ pc' = [pc EXCEPT ![s] = "load_inv_update"]
       ELSE /\ toast' = Toast(s, "Error")
            /\ pc' = [pc EXCEPT ![s] = "idle"]
            /\ UNCHANGED project_invitations
  /\ UNCHANGED <<mail, projects, nextProject, project_members, nextInvitation, now,
                 outbox, auth, user, local, registry>>
  /\ UNCHANGED aside

\* handleDeclineInvitation deleting by the email of the invitation instead of
\* its id
DeclineByEmail(s, k, net) ==
  /\ pc[s] = "idle" /\ user[s] # Null /\ modal[s] = "invitations"
  /\ k \in 1..Len(userInvitations[s])
  /\ LET id == userInvitations[s][k].id IN
     /\ calls' = Calls(s, <<"delete:project_invitations">>)
     /\ IF net = "ok" /\ DbDeleteInvitationAllowed(auth[s], id)
          THEN /\ project_invitations' =
                    {r \in project_invitations : r.email # userInvitations[s][k].email}
               /\ toast' = Toast(s, "Invitation declined")
               /\ pc' = [pc EXCEPT ![s] = "load_inv_update"]
          ELSE /\ toast' = Toast(s, "Error")
               /\ UNCHANGED <<project_invitations, pc>>
  /\ UNCHANGED <<mail, projects, nextProject, project_members, nextInvitation, now,
                 outbox, auth, user, frame, local, registry>>
  /\ UNCHANGED aside

\* handleDeclineInvitation(invitation)
HandleDeclineInvitation(s, k, net) ==
  /\ pc[s] = "idle" /\ user[s] # Null /\ modal[s] = "invitations"
  /\ k \in 1..Len(userInvitations[s])
  /\ LET id == userInvitations[s][k].id IN
     /\ calls' = Calls(s, <<"delete:project_invitations">>)
     /\ IF net = "ok" /\ DbDeleteInvitationAllowed(auth[s], id)
          THEN /\ project_invitations' = {r \in project_invitations : r.id # id}
               /\ toast' = Toast(s, "Invitation declined")
               /\ pc' = [pc EXCEPT ![s] = "load_inv_update"]
          ELSE /\ toast' = Toast(s, "Error")
               /\ UNCHANGED <<project_invitations, pc>>
  /\ UNCHANGED <<mail, projects, nextProject, project_members, nextInvitation, now,
                 outbox, auth, user, frame, local, registry>>
  /\ UNCHANGED aside

\* ------------------------------------------------------- specification
\* every checkOwnership of the browser's cards has settled
Settled(s) == cardChecking[s] = {}

\* the handlers of the two browsers; the user of a browser acts once the
\* ownership checks of the cards have settled (SpecRegistry has the clicks
\* that come earlier)
Workflow ==
  \/ \E s \in Sessions, p \in 1..MaxProjects : CheckOwnership(s, p)
  \/ \E s \in OwnerSide, form \in WorkflowForms, net \in NetOutcomes :
       Settled(s) /\ nextProject <= MaxProjects /\ CreateProject(s, form, net)
  \/ \E s \in OwnerSide, p \in 1..MaxProjects, net \in NetOutcomes :
       Settled(s) /\ DeleteProject(s, p, net)
  \/ \E s \in InviteeSide, p \in 1..MaxProjects, net \in NetOutcomes :
       Settled(s) /\ QuitProject(s, p, net)
  \/ \E s \in OwnerSide, p \in 1..MaxProjects : Settled(s) /\ OpenMembersModal(s, p)
  \/ \E s \in Sessions : Settled(s) /\ CloseModal(s)
  \/ \E s \in OwnerSide : Settled(s) /\ LoadMembersAndInvitations(s)
  \/ \E s \in OwnerSide, raw \in InviteInputs, net \in NetOutcomes :
       Settled(s) /\ HandleInvite(s, raw, net)
  \/ \E s \in OwnerSide, lookup \in LookupOutcomes, out \in EmailJsOutcomes :
       Settled(s) /\ InviteEmail(s, lookup, out)
  \/ \E s \in OwnerSide, k \in 1..MaxInvitations, net \in NetOutcomes :
       Settled(s) /\ HandleCancelInvitation(s, k, net)
  \/ \E s \in OwnerSide : \E m \in members[s], net \in NetOutcomes :
       Settled(s) /\ HandleTransferOwnership(s, m, net)
  \/ \E s \in InviteeSide : Settled(s) /\ OpenInvitationsModal(s)
  \/ \E s \in InviteeSide : Settled(s) /\ LoadInvitations(s)
  \/ \E s \in InviteeSide, k \in 1..MaxInvitations, net \in NetOutcomes :
       Settled(s) /\ HandleAcceptInvitation(s, k, net)
  \/ \E s \in InviteeSide, net \in NetOutcomes : Settled(s) /\ AcceptUpdate(s, net)
  \/ \E s \in InviteeSide, k \in 1..MaxInvitations, net \in NetOutcomes :
       Settled(s) /\ HandleDeclineInvitation(s, k, net)

\* the identity of the invitee's browser changes
Identity ==
  \/ \E s \in InviteeSide : SignOut(s)
  \/ \E s \in InviteeSide, u \in Users : SignIn(s, u)
  \/ \E s \in InviteeSide : AuthStateChange(s)

\* the workflow while time passes and invitations expire
Next == Tick \/ Workflow

\* the workflow while the identity of the invitee's browser changes
NextAuth == Identity \/ Workflow

\* ------------------------------------------------------- busy flags
\* how an awaited remote call settles: with data, with an error object, or
\* as a rejected promise
Answers == {"ok", "error", "rejects"}

\* a handler waiting at an await, with its locals (a record)
Await(h, at, data) == [h |-> h, at |-> at, data |-> data]

\* setIsLoading(b) of component c
SetIsLoading(s, c, b) == isLoading' = [isLoading EXCEPT ![s][c] = b]

\* the handler at position i is through, or goes on to its next await
Through(s, i) ==
  awaiting' = [awaiting EXCEPT ![s] =
                 SubSeq(@, 1, i - 1) \o SubSeq(@, i + 1, Len(@))]
GoesOn(s, i, f) == awaiting' = [awaiting EXCEPT ![s][i] = f]

\* the effect of ProjectMembersModal on [isOpen, projectId]: the modal opens
\* and loadMembersAndInvitations() and checkIfOwner() start
MembersModalOpens(s, p) ==
  /\ user[s] # Null /\ modal[s] = "none"
  /\ p \in CardIds(filteredProjects[s])
  /\ Len(awaiting[s]) < MaxAwaiting
  /\ modal' = [modal EXCEPT ![s] = "members"]
  /\ projectId' = [projectId EXCEPT ![s] = p]
  /\ SetIsLoading(s, "members", TRUE)
  /\ awaiting' = [awaiting EXCEPT ![s] =
                    Append(@, Await("loadMembersAndInvitations", "queries", [owner |-> TRUE]))]
  /\ Quiet
  /\ UNCHANGED <<backend, auth, user, pc, frame, members, invitations,
                 userInvitations, currentUserId, isOwner, registry, tagForm, gate,
                 faults, inflight, isInviting>>

\* loadMembersAndInvitations after its awaits (f.data: checkIfOwner was
\* started with it): the state of the modal, or the toast of the catch, and
\* setIsLoading(false) of the finally
LoadMembersAnswer(s, i, ans) ==
  /\ i \in 1..Len(awaiting[s])
  /\ awaiting[s][i].h = "loadMembersAndInvitations"
  /\ LET f == awaiting[s][i] IN
     IF modal[s] # "members"
       THEN /\ toast' = NoToast
            /\ UNCHANGED <<members, invitations, currentUserId, isOwner>>
       ELSE IF ans = "rejects"
       THEN /\ toast' = Toast(s, "Error")
            /\ UNCHANGED <<members, invitations, currentUserId, isOwner>>
       ELSE /\ currentUserId' = [currentUserId EXCEPT ![s] = auth[s]]
            /\ IF ans = "error" \/ projectId[s] \notin ProjectIds
                 THEN /\ toast' = Toast(s, "Error")
                      /\ UNCHANGED <<members, invitations, isOwner>>
                 ELSE /\ members' = [members EXCEPT ![s] = AllMembers(projectId[s])]
                      /\ invitations' =
                           [invitations EXCEPT ![s] = PendingOfProject(projectId[s])]
                      /\ isOwner' =
                           IF f.data.owner /\ auth[s] # Null
                             THEN [isOwner EXCEPT ![s] = auth[s] \in OwnersOf(projectId[s])]
                             ELSE isOwner
                      /\ toast' = NoToast
  /\ SetIsLoading(s, "members", FALSE)
  /\ Through(s, i)
  /\ calls' = NoCalls
  /\ UNCHANGED <<backend, auth, user, pc, frame, modal, projectId, userInvitations,
                 registry, tagForm, gate, faults, inflight, isInviting>>

\* the effect of UserInvitationsModal on [isOpen]: the modal opens and
\* loadInvitations() starts
InvitationsModalOpens(s) ==
  /\ user[s] # Null /\ modal[s] = "none"
  /\ Len(awaiting[s]) < MaxAwaiting
  /\ modal' = [modal EXCEPT ![s] = "invitations"]
  /\ SetIsLoading(s, "invitations", TRUE)
  /\ awaiting' = [awaiting EXCEPT ![s] =
                    Append(@, Await("loadInvitations", "getUser", [user |-> Null]))]
  /\ Quiet
  /\ UNCHANGED <<backend, auth, user, pc, frame, projectId, members, invitations,
                 userInvitations, currentUserId, isOwner, registry, tagForm, gate,
                 faults, inflight, isInviting>>

\* loadInvitations after getUser() (the return when there is no user.email)
\* and after the query: the list, or the toast of the catch, and
\* setIsLoading(false) of the finally
LoadInvitationsAnswer(s, i, ans) ==
  /\ i \in 1..Len(awaiting[s])
  /\ awaiting[s][i].h = "loadInvitations"
  /\ LET f == awaiting[s][i] IN
     IF f.at = "getUser" /\ ans = "ok" /\ auth[s] # Null
       THEN /\ GoesOn(s, i, Await("loadInvitations", "query", [user |-> auth[s]]))
            /\ toast' = NoToast
            /\ UNCHANGED <<userInvitations, isLoading>>
       ELSE /\ Through(s, i)
            /\ SetIsLoading(s, "invitations", FALSE)
            /\ IF f.at = "getUser"
                 THEN /\ toast' = IF ans = "rejects" THEN Toast(s, "Error") ELSE NoToast
                      /\ UNCHANGED userInvitations
                 ELSE IF ans # "ok"
                 THEN /\ toast' = Toast(s, "Error")
                      /\ UNCHANGED userInvitations
                 ELSE /\ toast' = NoToast
                      /\ userInvitations' =
                           IF modal[s] = "invitations"
                             THEN [userInvitations EXCEPT ![s] =
                                     PendingOfEmail(EmailOf(f.data.user))]
                             ELSE userInvitations
  /\ calls' = NoCalls
  /\ UNCHANGED <<backend, auth, user, pc, frame, modal, projectId, members,
                 invitations, currentUserId, isOwner, registry, tagForm, gate,
                 faults, inflight, isInviting>>

\* handleInvite up to the await of the insert: the early returns, or
\* setIsInviting(true) and the insert
HandleInviteCall(s, raw) ==
  /\ user[s] # Null /\ modal[s] = "members" /\ isOwner[s]
  /\ ~isInviting[s]
  /\ Len(awaiting[s]) < MaxAwaiting
  /\ nextInvitation <= MaxInvitations
  /\ LET r == ResolveInviteTarget(auth[s], raw) IN
     IF r.err # Null
       THEN /\ toast' = Toast(s, r.err)
            /\ UNCHANGED <<isInviting, awaiting>>
       ELSE /\ toast' = NoToast
            /\ isInviting' = [isInviting EXCEPT ![s] = TRUE]
            /\ awaiting' = [awaiting EXCEPT ![s] =
                 Append(@, Await("handleInvite", "insert",
                                 [p |-> projectId[s], target |-> r.target,
                                  user |-> auth[s]]))]
  /\ calls' = NoCalls
  /\ UNCHANGED <<backend, auth, user, pc, frame, local, registry, tagForm, gate,
                 faults, inflight, isLoading>>

\* handleInvite whose return for the error 23505 leaves the try without its
\* finally
InviteFinallySkippedOnReturn(returned) == ~returned

\* the finally of handleInvite runs however the try was left
InviteFinally(returned) == TRUE

\* handleInvite after the insert: "Already invited" and return, the toast of
\* the catch, or on to the mail
HandleInviteInsertAnswer(s, i, ans) ==
  /\ i \in 1..Len(awaiting[s])
  /\ awaiting[s][i].h = "handleInvite" /\ awaiting[s][i].at = "insert"
  /\ LET f == awaiting[s][i].data
         row == DbInvitationRow(InvitationInsertValues(f.p, f.target, f.user))
     IN IF ans = "ok" /\ f.p \in ProjectIds /\ ~DbDuplicatePending(f.p, f.target)
          THEN /\ project_invitations' = project_invitations \cup {row}
               /\ nextInvitation' = nextInvitation + 1
               /\ GoesOn(s, i, Await("handleInvite", "email",
                                     [inv |-> row, target |-> f.target, user |-> f.user]))
               /\ toast' = NoToast
               /\ UNCHANGED isInviting
          ELSE /\ toast' = Toast(s, InsertErrorToast(
                                 IF ans = "ok" /\ f.p \in ProjectIds
                                   THEN "23505" ELSE "other"))
               /\ Through(s, i)
               /\ isInviting' =
                    [isInviting EXCEPT ![s] =
                       IF InviteFinally(ans = "ok" /\ f.p \in ProjectIds)
                         THEN FALSE ELSE @]
               /\ UNCHANGED <<project_invitations, nextInvitation>>
  /\ calls' = Calls(s, <<"insert:project_invitations">>)
  /\ UNCHANGED <<mail, projects, nextProject, project_members, now, outbox, auth,
                 user, pc, frame, local, registry, tagForm, gate, faults, inflight,
                 isLoading>>

\* handleInvite after the mail: the toast, setInviteEmail(""), the start of
\* loadMembersAndInvitations() and setIsInviting(false) of the finally
HandleInviteMailAnswer(s, i, lookup, out) ==
  /\ i \in 1..Len(awaiting[s])
  /\ awaiting[s][i].h = "handleInvite" /\ awaiting[s][i].at = "email"
  /\ LET f == awaiting[s][i].data
         data == [email |-> f.target,
                  inviterName |-> EmailOf(f.user),
                  inviterUsername |->
                    IF lookup = "ok"
                      THEN (CHOOSE x \in Profiles : x.user_id = f.user).username
                      ELSE Undefined,
                  invitationToken |-> f.inv.token]
         res == SendInvitationEmail(data, out)
     IN /\ toast' = Toast(s, InviteEmailToast(lookup, res))
        /\ IF lookup = "rejects"
             THEN /\ calls' = Calls(s, <<>>)
                  /\ UNCHANGED outbox
             ELSE /\ calls' = Calls(s, <<"email">>)
                  /\ outbox' = IF res.sent /\ out = "ok"
                                 THEN outbox \cup {[to_email |-> res.params.to_email,
                                                    token |-> res.params.token]}
                                 ELSE outbox
  /\ SetIsLoading(s, "members", TRUE)
  /\ GoesOn(s, i, Await("loadMembersAndInvitations", "queries", [owner |-> FALSE]))
  /\ isInviting' = [isInviting EXCEPT ![s] = FALSE]
  /\ UNCHANGED <<mail, projects, nextProject, project_members, project_invitations,
                 nextInvitation, now, auth, user, pc, frame, local, registry,
                 tagForm, gate, faults, inflight>>

\* handleSubmit of CreateProjectModal for a new project up to its first
\* await: the return for a blank name, or setIsLoading(true) and getUser()
ProjectSubmitCall(s, form) ==
  /\ user[s] # Null /\ modal[s] = "none"
  /\ ~isLoading[s]["project"]
  /\ Len(awaiting[s]) < MaxAwaiting
  /\ nextProject <= MaxProjects
  /\ IF TrimText(form.name) = <<>>
       THEN UNCHANGED <<isLoading, awaiting>>
       ELSE /\ SetIsLoading(s, "project", TRUE)
            /\ awaiting' = [awaiting EXCEPT ![s] =
                              Append(@, Await("handleSubmit", "getUser", form))]
  /\ Quiet
  /\ UNCHANGED <<backend, auth, user, pc, frame, local, registry, tagForm, gate,
                 faults, inflight, isInviting>>

\* handleSubmit of CreateProjectModal after getUser() and after the insert:
\* the throw of "Not authenticated", the toast of the catch, or the new
\* project, and setIsLoading(false) of the finally
ProjectSubmitAnswer(s, i, ans) ==
  /\ i \in 1..Len(awaiting[s])
  /\ awaiting[s][i].h = "handleSubmit"
  /\ LET f == awaiting[s][i] IN
     IF f.at = "getUser" /\ ans = "ok" /\ auth[s] # Null
       THEN /\ GoesOn(s, i, Await("handleSubmit", "insert",
                                  ProjectInsertValues(auth[s], f.data)))
            /\ toast' = NoToast
            /\ calls' = NoCalls
            /\ UNCHANGED <<projects, nextProject, projectList, searchQuery,
                           selectedTags, filteredProjects, cardIsOwner,
                           cardChecking, tagForm, isLoading>>
       ELSE /\ Through(s, i)
            /\ SetIsLoading(s, "project", FALSE)
            /\ IF f.at = "insert" /\ ans = "ok"
                 THEN /\ projects' = projects \cup {DbProjectRow(f.data)}
                      /\ nextProject' = nextProject + 1
                      /\ SetProjects(s, <<DbProjectRow(f.data)>> \o projectList[s])
                      /\ FormReset(s)
                      /\ toast' = Toast(s, "Project created")
                      /\ calls' = Calls(s, <<"insert:projects">>)
                 ELSE /\ toast' = Toast(s, "Error")
                      /\ calls' = Calls(s, IF f.at = "insert"
                                             THEN <<"insert:projects">> ELSE <<>>)
                      /\ UNCHANGED <<projects, nextProject, projectList, searchQuery,
                                     selectedTags, filteredProjects, cardIsOwner,
                                     cardChecking, tagForm>>
  /\ UNCHANGED <<mail, project_members, project_invitations, nextInvitation, now,
                 outbox, auth, user, pc, frame, local, pendingInvitationsCount,
                 gate, faults, inflight, isInviting>>

\* loginField.includes('@') on the strings of the model
IncludesAt(str) ==
  str \in {"alice@x.io", "Alice@X.io", "bob@x.io", "Bob@X.io", " Bob@X.io "}

\* what is submitted in AuthModal: for a sign-up whether password equals
\* confirmPassword, the verdicts of validatePassword and validateUsername
\* and the username; for a login the loginField
AuthForms ==
  {[type |-> "signup", confirmed |-> c, passwordValid |-> pv, usernameValid |-> uv,
    username |-> u, loginField |-> ""] :
     c \in BOOLEAN, pv \in BOOLEAN, uv \in BOOLEAN, u \in {"Bob", "carol"}}
  \cup
  {[type |-> "login", confirmed |-> TRUE, passwordValid |-> TRUE,
    usernameValid |-> TRUE, username |-> "", loginField |-> l] :
     l \in {"bob@x.io", "Bob", "nobody"}}

\* handleSubmit of AuthModal up to its first await: setIsLoading(true), then
\* the returns of the sign-up checks, which run the finally at once, or the
\* first query
AuthSubmitCall(s, form) ==
  /\ user[s] = Null /\ auth[s] = Null
  /\ ~isLoading[s]["auth"]
  /\ Len(awaiting[s]) < MaxAwaiting
  /\ IF form.type = "signup"
          /\ ~(form.confirmed /\ form.passwordValid /\ form.usernameValid)
       THEN /\ toast' = Toast(s, "Error")
            /\ UNCHANGED <<isLoading, awaiting>>
       ELSE /\ toast' = NoToast
            /\ SetIsLoading(s, "auth", TRUE)
            /\ awaiting' = [awaiting EXCEPT ![s] =
                 Append(@, Await("authSubmit",
                                 IF form.type = "login" /\ IncludesAt(form.loginField)
                                   THEN "signIn" ELSE "profiles",
                                 [form |-> form, email |-> form.loginField]))]
  /\ calls' = NoCalls
  /\ UNCHANGED <<backend, auth, user, pc, frame, local, registry, tagForm, gate,
                 faults, inflight, isInviting>>

\* handleSubmit of AuthModal after an await: the query of profiles (username
\* taken, username not found), signUp or signInWithPassword; every return
\* and the catch run setIsLoading(false) of the finally
AuthSubmitAnswer(s, i, ans) ==
  /\ i \in 1..Len(awaiting[s])
  /\ awaiting[s][i].h = "authSubmit"
  /\ LET f == awaiting[s][i]
         form == f.data.form
         found == IF ans = "ok"
                    THEN ProfileByUsername(ToLowerCase(
                           IF form.type = "signup" THEN form.username
                           ELSE form.loginField))
                    ELSE {}
         next == IF f.at # "profiles" \/ ans = "rejects" THEN "done"
                 ELSE IF form.type = "signup"
                   THEN (IF found = {} THEN "signUp" ELSE "done")
                   ELSE (IF found = {} THEN "done" ELSE "signIn")
     IN IF next # "done"
          THEN /\ GoesOn(s, i, Await("authSubmit", next,
                                     [form |-> form,
                                      email |-> IF next = "signIn"
                                                  THEN (CHOOSE x \in found : TRUE).email
                                                  ELSE f.data.email]))
               /\ toast' = NoToast
               /\ UNCHANGED <<auth, isLoading>>
          ELSE /\ Through(s, i)
               /\ SetIsLoading(s, "auth", FALSE)
               /\ IF f.at # "profiles" /\ ans = "ok"
                    THEN /\ toast' = Toast(s, "Success!")
                         /\ auth' = IF f.at = "signIn"
                                      THEN [auth EXCEPT ![s] =
                                              (CHOOSE x \in Profiles :
                                                 x.email = f.data.email).user_id]
                                      ELSE auth
                    ELSE /\ toast' = Toast(s, "Error")
                         /\ UNCHANGED auth
  /\ calls' = NoCalls
  /\ UNCHANGED <<backend, user, pc, frame, local, registry, tagForm, gate,
                 faults, inflight, isInviting>>

\* the forms of CreateProjectModal while the busy flags are watched
BusyForms == WorkflowForms \cup {[name |-> <<" ">>, description |-> NoText, tags |-> <<>>]}

\* the handlers that set a busy flag, split at their awaits, in one
\* browser: it creates a project, invites from the members modal, opens its
\* invitations, signs out and submits AuthModal; every await settles with
\* data, an error object or a rejection
NextBusy ==
  \/ \E s \in InviteeSide, form \in BusyForms : ProjectSubmitCall(s, form)
  \/ \E s \in InviteeSide, i \in 1..MaxAwaiting, ans \in Answers :
       ProjectSubmitAnswer(s, i, ans)
  \/ \E s \in InviteeSide, p \in 1..MaxProjects : CheckOwnership(s, p)
  \/ \E s \in InviteeSide, p \in 1..MaxProjects : MembersModalOpens(s, p)
  \/ \E s \in InviteeSide : CloseModal(s)
  \/ \E s \in InviteeSide, i \in 1..MaxAwaiting, ans \in Answers :
       LoadMembersAnswer(s, i, ans)
  \/ \E s \in InviteeSide, raw \in InviteInputs : HandleInviteCall(s, raw)
  \/ \E s \in InviteeSide, i \in 1..MaxAwaiting, ans \in Answers :
       HandleInviteInsertAnswer(s, i, ans)
  \/ \E s \in InviteeSide, i \in 1..MaxAwaiting, lookup \in LookupOutcomes,
        out \in EmailJsOutcomes : HandleInviteMailAnswer(s, i, lookup, out)
  \/ \E s \in InviteeSide : InvitationsModalOpens(s)
  \/ \E s \in InviteeSide, i \in 1..MaxAwaiting, ans \in Answers :
       LoadInvitationsAnswer(s, i, ans)
  \/ \E s \in InviteeSide : SignOut(s)
  \/ \E s \in InviteeSide : AuthStateChange(s)
  \/ \E s \in InviteeSide, form \in AuthForms : AuthSubmitCall(s, form)
  \/ \E s \in InviteeSide, i \in 1..MaxAwaiting, ans \in Answers :
       AuthSubmitAnswer(s, i, ans)

\* every remote call settles: the handler that has waited longest on a page
\* gets its answer
Settles(s) ==
  \/ \E ans \in Answers : ProjectSubmitAnswer(s, 1, ans)
  \/ \E ans \in Answers : LoadMembersAnswer(s, 1, ans)
  \/ \E ans \in Answers : HandleInviteInsertAnswer(s, 1, ans)
  \/ \E lookup \in LookupOutcomes, out \in EmailJsOutcomes :
       HandleInviteMailAnswer(s, 1, lookup, out)
  \/ \E ans \in Answers : LoadInvitationsAnswer(s, 1, ans)
  \/ \E ans \in Answers : AuthSubmitAnswer(s, 1, ans)

\* what the users type into CreateProjectModal in the registry
RegistryForms ==
  {[name |-> <<" ", "B", " ">>, description |-> <<"a", " ">>, tags |-> << <<"a">> >>],
   [name |-> <<" ", " ">>, description |-> NoText, tags |-> <<>>]}

\* the project registry of both browsers: create and quit from the cards
\* (also before the ownership check of a card has settled), a new mount of
\* the page, and invitations of the owner's browser that the invitee's
\* browser accepts
NextRegistry ==
  \/ Tick
  \/ \E s \in Sessions, form \in RegistryForms :
       nextProject <= MaxRegistryProjects /\ CreateProject(s, form, "ok")
  \/ \E s \in Sessions, p \in 1..MaxRegistryProjects : CheckOwnership(s, p)
  \/ \E s \in Sessions, p \in 1..MaxRegistryProjects : QuitProject(s, p, "ok")
  \/ \E s \in Sessions : MountAuthenticatedView(s)
  \/ \E s \in OwnerSide, p \in 1..MaxRegistryProjects : OpenMembersModal(s, p)
  \/ \E s \in Sessions : CloseModal(s)
  \/ \E s \in OwnerSide : LoadMembersAndInvitations(s)
  \/ \E s \in OwnerSide : HandleInvite(s, "bob@x.io", "ok")
  \/ \E s \in OwnerSide : InviteEmail(s, "ok", "ok")
  \/ \E s \in InviteeSide : OpenInvitationsModal(s)
  \/ \E s \in InviteeSide : LoadInvitations(s)
  \/ \E s \in InviteeSide, k \in 1..MaxInvitations : HandleAcceptInvitation(s, k, "ok")
  \/ \E s \in InviteeSide : AcceptUpdate(s, "ok")

\* projects as U1 has created them, for the filter of the registry
FilterPool ==
  {[id |-> 1, user_id |-> "U1", name |-> <<"a", "B">>, description |-> NoText,
    tags |-> <<>>, updated_at |-> 0],
   [id |-> 2, user_id |-> "U1", name |-> <<"b">>, description |-> <<"A", "b">>,
    tags |-> << <<"a">> >>, updated_at |-> 0],
   [id |-> 3, user_id |-> "U1", name |-> <<"B">>, description |-> NoText,
    tags |-> << <<"A">>, <<"b">> >>, updated_at |-> 0],
   [id |-> 4, user_id |-> "U1", name |-> <<"a">>, description |-> <<"b">>,
    tags |-> << <<"a", "b">>, <<"b">> >>, updated_at |-> 0]}

\* what the user types into the search box, and the tags of the tag bar
FilterQueries == {NoText, <<"a">>, <<"B">>, <<"a", "b">>, <<"A", "B">>, <<" ">>}
FilterTags == {<<"a">>, <<"A">>, <<"b">>}

\* U1's page once it has loaded up to MaxFilterProjects projects of the pool
\* and the cards have settled
InitFilter ==
  /\ projects \in {S \in SUBSET FilterPool : Cardinality(S) <= MaxFilterProjects}
  /\ nextProject = Cardinality(FilterPool) + 1
  /\ project_members = {}
  /\ project_invitations = {}
  /\ nextInvitation = 1
  /\ now = 0
  /\ outbox = {}
  /\ mail = NoMail
  /\ auth = [s \in Sessions |-> IF s \in OwnerSide THEN "U1" ELSE "U2"]
  /\ user = auth
  /\ pc = [s \in Sessions |-> "idle"]
  /\ frame = [s \in Sessions |-> NoFrame]
  /\ modal = [s \in Sessions |-> "none"]
  /\ projectId = [s \in Sessions |-> 0]
  /\ members = [s \in Sessions |-> {}]
  /\ invitations = [s \in Sessions |-> <<>>]
  /\ userInvitations = [s \in Sessions |-> <<>>]
  /\ currentUserId = [s \in Sessions |-> Null]
  /\ isOwner = [s \in Sessions |-> FALSE]
  /\ \E list \in ByUpdatedAtDesc(projects) :
       projectList = [s \in Sessions |-> IF s \in OwnerSide THEN list ELSE <<>>]
  /\ searchQuery = [s \in Sessions |-> NoText]
  /\ selectedTags = [s \in Sessions |-> <<>>]
  /\ filteredProjects = projectList
  /\ cardIsOwner = [s \in Sessions |-> CardIds(projectList[s])]
  /\ cardChecking = [s \in Sessions |-> {}]
  /\ pendingInvitationsCount = [s \in Sessions |-> 0]
  /\ formTags = [s \in Sessions |-> <<>>]
  /\ newTag = [s \in Sessions |-> NoText]
  /\ subscribed = [s \in Sessions |-> TRUE]
  /\ fetch = [s \in Sessions |-> NoFetch]
  /\ events = [s \in Sessions |-> <<>>]
  /\ unhandled = [s \in Sessions |-> {}]
  /\ inflight = [s \in Sessions |-> {}]
  /\ isInviting = [s \in Sessions |-> FALSE]
  /\ isLoading = [s \in Sessions |-> [c \in Components |-> FALSE]]
  /\ awaiting = [s \in Sessions |-> <<>>]
  /\ toast = NoToast
  /\ calls = NoCalls

\* the search box and the tag bar of U1's page
NextFilter ==
  \/ \E s \in OwnerSide, query \in FilterQueries : SetSearchQuery(s, query)
  \/ \E s \in OwnerSide, tag \in FilterTags : ToggleTagFilter(s, tag)
  \/ \E s \in OwnerSide, p \in 1..Cardinality(FilterPool) : CheckOwnership(s, p)

\* what the user types into the tag input, and the keys pressed in it
TagInputs == {NoText, <<" ">>, <<"a">>, <<" ", "a", " ">>, <<"A">>, <<"b">>}
Keys == {"Enter", "Tab"}
TagValues == {<<"a">>, <<"A">>, <<"b">>, <<" ", "a", " ">>}

\* the form of CreateProjectModal with the tags of its state
TagFormOf(s) == [name |-> <<"a">>, description |-> NoText, tags |-> formTags[s]]

\* the tag input of the form of U1's page, and the submit of the form
NextTags ==
  \/ \E s \in OwnerSide, text \in TagInputs : SetNewTag(s, text)
  \/ \E s \in OwnerSide, key \in Keys :
       Len(formTags[s]) < MaxTags /\ HandleAddTag(s, key)
  \/ \E s \in OwnerSide, tag \in TagValues : HandleRemoveTag(s, tag)
  \/ \E s \in OwnerSide : HandleClose(s)
  \/ \E s \in OwnerSide, net \in NetOutcomes :
       nextProject <= MaxRegistryProjects /\ CreateProject(s, TagFormOf(s), net)
  \/ \E s \in OwnerSide, p \in 1..MaxRegistryProjects : CheckOwnership(s, p)

\* the identity gate of the page of the invitee's browser, whose user has
\* created a project before
NextGate ==
  \/ \E s \in InviteeSide : Teardown(s)
  \/ \E s \in InviteeSide : GateMount(s)
  \/ \E s \in InviteeSide : FetchAnswer(s)
  \/ \E s \in InviteeSide : FetchResolve(s)
  \/ \E s \in InviteeSide, u \in Users \cup {Null} :
       Len(events[s]) < MaxEvents /\ SessionChange(s, u)
  \/ \E s \in InviteeSide : OnAuthStateChange(s)
  \/ \E s \in InviteeSide, form \in WorkflowForms :
       nextProject <= MaxProjects /\ CreateProject(s, form, "ok")
  \/ \E s \in InviteeSide, p \in 1..MaxProjects : CheckOwnership(s, p)

\* the owner's page while remote calls fail: the project, the members
\* modal, invitations, and the reload of the project list
NextFailures ==
  \/ \E s \in OwnerSide, form \in WorkflowForms, net \in NetOutcomes :
       nextProject <= MaxProjects /\ CreateProject(s, form, net)
  \/ \E s \in OwnerSide, p \in 1..MaxProjects : CheckOwnership(s, p)
  \/ \E s \in OwnerSide, ids \in LookupOutcomes, net \in NetOutcomes :
       LoadProjects(s, ids, net)
  \/ \E s \in OwnerSide, p \in 1..MaxProjects, net \in NetOutcomes :
       DeleteProject(s, p, net)
  \/ \E s \in OwnerSide, p \in 1..MaxProjects : OpenMembersModal(s, p)
  \/ \E s \in OwnerSide : CloseModal(s)
  \/ \E s \in OwnerSide : LoadMembersAndInvitations(s)
  \/ \E s \in OwnerSide, raw \in InviteInputs, net \in NetOutcomes :
       HandleInvite(s, raw, net)
  \/ \E s \in OwnerSide, raw \in InviteInputs, at \in InviteAwaitsBeforeTry :
       HandleInviteRejected(s, raw, at)
  \/ \E s \in OwnerSide, lookup \in LookupOutcomes, out \in EmailJsOutcomes :
       InviteEmail(s, lookup, out)
  \/ \E s \in OwnerSide, k \in 1..MaxInvitations, net \in NetOutcomes :
       HandleCancelInvitation(s, k, net)

\* what the users type into the form of an edited project
EditForms == {[name |-> <<"b">>, description |-> NoText, tags |-> <<>>]}

\* both browsers while their sessions end: the owner creates, edits and
\* invites, the invitee accepts, edits and quits; a page whose session has
\* ended stays as it is until the auth event is handled
NextSignedOut ==
  \/ \E s \in Sessions : SignOut(s)
  \/ \E s \in Sessions : AuthStateChange(s)
  \/ \E s \in Sessions, p \in 1..MaxProjects : CheckOwnership(s, p)
  \/ \E s \in OwnerSide, form \in WorkflowForms, net \in NetOutcomes :
       nextProject <= MaxProjects /\ CreateProject(s, form, net)
  \/ \E s \in Sessions, p \in 1..MaxProjects, form \in EditForms, net \in NetOutcomes :
       UpdateProject(s, p, form, net)
  \/ \E s \in InviteeSide, p \in 1..MaxProjects, net \in NetOutcomes :
       QuitProject(s, p, net)
  \/ \E s \in OwnerSide, p \in 1..MaxProjects : OpenMembersModal(s, p)
  \/ \E s \in Sessions : CloseModal(s)
  \/ \E s \in OwnerSide : LoadMembersAndInvitations(s)
  \/ \E s \in OwnerSide, raw \in {"bob@x.io", "bob", ""}, net \in NetOutcomes :
       HandleInvite(s, raw, net)
  \/ \E s \in OwnerSide : InviteEmail(s, "ok", "ok")
  \/ \E s \in InviteeSide : OpenInvitationsModal(s)
  \/ \E s \in InviteeSide : LoadInvitations(s)
  \/ \E s \in InviteeSide, k \in 1..MaxInvitations, net \in NetOutcomes :
       HandleAcceptInvitation(s, k, net)
  \/ \E s \in InviteeSide, net \in NetOutcomes : AcceptUpdate(s, net)

\* the two functions of emailService.ts under every input and outcome
NextEmail ==
  \/ \E data \in InvitationEmailInputs, out \in EmailJsOutcomes :
       CallSendInvitationEmail(data, out)
  \/ \E data \in ContactEmailInputs, out \in EmailJsOutcomes :
       CallSendContactEmail(data, out)

Spec == Init /\ [][Next]_vars
SpecAuth == Init /\ [][NextAuth]_vars
SpecEmail == Init /\ [][NextEmail]_vars
\* what the user submits while mutations are in flight: a new project, and
\* other values for a project that is edited
InFlightForms ==
  {[name |-> <<"B">>, description |-> NoText, tags |-> <<>>]} \cup EditForms

\* the project list of the invitee's browser while its mutations are in
\* flight: the owner's browser creates one project and invites, the
\* invitee's browser accepts, and creates, edits, deletes and quits without
\* waiting for the answers; the owner's browser changes no project after
\* its first
NextInFlight ==
  \/ \E s \in OwnerSide, form \in InFlightForms :
       nextProject = 1 /\ CreateProject(s, form, "ok")
  \/ \E s \in Sessions, p \in 1..MaxInFlightProjects : CheckOwnership(s, p)
  \/ \E s \in OwnerSide, p \in 1..MaxInFlightProjects : OpenMembersModal(s, p)
  \/ \E s \in Sessions : CloseModal(s)
  \/ \E s \in OwnerSide : LoadMembersAndInvitations(s)
  \/ \E s \in OwnerSide : nextInvitation = 1 /\ HandleInvite(s, "bob@x.io", "ok")
  \/ \E s \in OwnerSide : InviteEmail(s, "ok", "ok")
  \/ \E s \in InviteeSide : OpenInvitationsModal(s)
  \/ \E s \in InviteeSide : LoadInvitations(s)
  \/ \E s \in InviteeSide, k \in 1..MaxInvitations : HandleAcceptInvitation(s, k, "ok")
  \/ \E s \in InviteeSide : AcceptUpdate(s, "ok")
  \/ \E s \in InviteeSide, p \in 1..MaxInFlightProjects : HandleDeleteProjectCall(s, p)
  \/ \E s \in InviteeSide, p \in 1..MaxInFlightProjects : HandleQuitProjectCall(s, p)
  \/ \E s \in InviteeSide, editing \in 0..MaxInFlightProjects, form \in InFlightForms :
       HandleSubmitCall(s, editing, form)
  \/ \E s \in InviteeSide, net \in NetOutcomes : \E r \in inflight[s] :
       HandleDeleteProjectAnswer(s, r, net)
  \/ \E s \in InviteeSide, net \in NetOutcomes : \E r \in inflight[s] :
       HandleQuitProjectAnswer(s, r, net)
  \/ \E s \in InviteeSide, net \in NetOutcomes : \E r \in inflight[s] :
       HandleSubmitAnswer(s, r, net)

SpecRegistry == Init /\ [][NextRegistry]_vars
SpecFilter == InitFilter /\ [][NextFilter]_vars
SpecTags == Init /\ [][NextTags]_vars
SpecGate == Init /\ [][NextGate]_vars
SpecFailures == Init /\ [][NextFailures]_vars
SpecSignedOut == Init /\ [][NextSignedOut]_vars
SpecInFlight == Init /\ [][NextInFlight]_vars
SpecBusy == Init /\ [][NextBusy]_vars /\ \A s \in Sessions : WF_vars(Settles(s))

\* ------------------------------------------------------- ownership
ExactlyOneOwner ==
  \A p \in ProjectIds :
    /\ Cardinality({r \in projects : r.id = p}) = 1
    /\ Cardinality(OwnersOf(p)) = 1
    /\ OwnersOf(p) \subseteq Users

\* a step that changes the owner of a project, or that issues the rpc, is a
\* step of a handler that has issued the rpc and nothing else
TransferIsOneCall ==
  /\ \A p \in ProjectIds \cap ProjectIds' :
       OwnersOf(p)' # OwnersOf(p) =>
         calls'.issued = <<"rpc:transfer_project_ownership">>
  /\ \A i \in 1..Len(calls'.issued) :
       calls'.issued[i] = "rpc:transfer_project_ownership" => Len(calls'.issued) = 1

\* C1: every existing project has exactly one owner in every state, and the
\* owner of a project changes only in a step in which the client has issued
\* the one call rpc transfer_project_ownership and no other write.
C1_ExactlyOneOwner == []ExactlyOneOwner /\ [][TransferIsOneCall]_vars

\* an ownership transfer has just completed: the invitee owns the project
C1_Transferred ==
  /\ toast = Toast("s1", "Ownership transferred")
  /\ calls = Calls("s1", <<"rpc:transfer_project_ownership">>)
  /\ \E p \in ProjectIds : OwnersOf(p) = {"U2"}

\* ------------------------------------------------------- duplicate invitations
UniquePending ==
  \A r1, r2 \in project_invitations :
    (/\ r1.project_id = r2.project_id /\ r1.email = r2.email
     /\ Pending(r1) /\ Pending(r2)) => r1 = r2

\* a handleInvite whose insert reaches the backend for a pair that has a
\* pending invitation
DuplicateInviteRejected ==
  \A s \in OwnerSide, raw \in InviteInputs :
    LET r == ResolveInviteTarget(auth[s], raw) IN
    (/\ HandleInvite(s, raw, "ok")
     /\ r.err = Null
     /\ \E x \in project_invitations :
          x.project_id = projectId[s] /\ x.email = r.target /\ Pending(x))
    => /\ toast' = Toast(s, "Already invited")
       /\ project_invitations' = project_invitations
       /\ nextInvitation' = nextInvitation
       /\ outbox' = outbox
       /\ pc'[s] = "idle"

\* C2: at most one unaccepted, unexpired invitation exists per (project,
\* email) in every state, and a create-invitation call for a pair that has a
\* pending invitation shows "Already invited" and creates no row.
C2_OnePendingPerPair == []UniquePending /\ [][DuplicateInviteRejected]_vars

\* the owner has just been told "Already invited" and the one pending
\* invitation is still the only one of its pair
C2_AlreadyInvited ==
  /\ toast = Toast("s1", "Already invited")
  /\ calls = Calls("s1", <<"insert:project_invitations">>)
  /\ \E x \in project_invitations : x.project_id = projectId["s1"] /\ Pending(x)

\* ------------------------------------------------------- self-invite
\* the inputs that name identity u: spellings of its email, its username
OwnEmailInputs(u) ==
  IF u = "U1" THEN {"alice@x.io", "Alice@X.io"}
  ELSE IF u = "U2" THEN {"bob@x.io", " Bob@X.io "} ELSE {}
OwnUsernameInputs(u) ==
  IF u = "U1" THEN {"alice"} ELSE IF u = "U2" THEN {"bob"} ELSE {}

SelfInviteRejected ==
  \A s \in OwnerSide, net \in NetOutcomes :
    \A raw \in OwnEmailInputs(auth[s]) \cup OwnUsernameInputs(auth[s]) :
      HandleInvite(s, raw, net)
      => /\ toast' = Toast(s, "Invalid invitation")
         /\ calls' = Calls(s, <<>>)
         /\ project_invitations' = project_invitations
         /\ nextInvitation' = nextInvitation
         /\ outbox' = outbox /\ mail' = mail
         /\ pc'[s] = "idle"

\* C3: a handleInvite whose input is the inviter's own email (in any
\* spelling) or the inviter's own username shows "Invalid invitation",
\* issues no write, inserts no invitation row and dispatches no email.
C3_SelfInviteRejected == [][SelfInviteRejected]_vars

\* the owner has just been refused an invitation to themselves
C3_InvalidInvitation ==
  /\ toast = Toast("s1", "Invalid invitation")
  /\ calls = Calls("s1", <<>>)
  /\ isOwner["s1"] /\ auth["s1"] = "U1"

\* ------------------------------------------------------- accept, identity
AcceptNeedsInvitedEmail ==
  /\ \A s \in InviteeSide, k \in 1..MaxInvitations, net \in NetOutcomes :
       (/\ HandleAcceptInvitation(s, k, net)
        /\ auth[s] # Null
        /\ EmailOf(auth[s]) # userInvitations[s][k].email)
       => /\ project_members' = project_members
          /\ toast' = Toast(s, "Error")
          /\ pc'[s] = "idle"
  /\ \A m \in project_members' \ project_members :
       \E r \in project_invitations :
         r.project_id = m.project_id /\ r.email = EmailOf(m.user_id)

\* C4: an accept attempted by an identity whose email is not the
\* invitation's is rejected and creates no membership row; every membership
\* row that is created is for an identity whose email is that of an
\* invitation to the project.
C4_AcceptNeedsInvitedEmail == [][AcceptNeedsInvitedEmail]_vars

\* an accept by another identity than the invited one has just been rejected
C4_RejectedForeignAccept ==
  /\ toast = Toast("s2", "Error")
  /\ calls = Calls("s2", <<"insert:project_members">>)
  /\ auth["s2"] # Null
  /\ modal["s2"] = "invitations"
  /\ \E k \in 1..Len(userInvitations["s2"]) :
       /\ userInvitations["s2"][k].email # EmailOf(auth["s2"])
       /\ userInvitations["s2"][k] \in project_invitations

\* ------------------------------------------------------- owner and membership
\* C5: in every state no row of project_members with role member belongs to
\* the owner of the row's project.
C5_OwnerHoldsNoMemberRow ==
  \A m \in project_members :
    m.role = "member" => m.user_id \notin OwnersOf(m.project_id)

\* ------------------------------------------------------- invitation lifecycle
\* the state of the invitation with id: not yet created, pending, accepted,
\* expired, or deleted
InvitationState(id) ==
  IF \E r \in project_invitations : r.id = id
    THEN LET r == CHOOSE x \in project_invitations : x.id = id IN
         IF r.accepted_at # NoTime THEN "ACCEPTED"
         ELSE IF r.expires_at > now THEN "PENDING"
         ELSE "EXPIRED"
    ELSE IF id < nextInvitation THEN "DELETED" ELSE "NONE"

\* the fields of the invitation with id, accepted_at apart
ImmutableFields(id) ==
  {[r EXCEPT !.accepted_at = NoTime] : r \in {x \in project_invitations : x.id = id}}

AcceptedAt(id) == {r.accepted_at : r \in {x \in project_invitations : x.id = id}}

\* the projects of the invitation with id
ProjectOf(id) == {r.project_id : r \in {x \in project_invitations : x.id = id}}

\* the steps of one invitation that the lifecycle allows; the cascade of a
\* deleted project is left aside
LifecycleStep(id) ==
  LET a == InvitationState(id)
      b == InvitationState(id)'
  IN \/ ProjectOf(id) \cap ProjectIds' = {} /\ a # "NONE"
     \/ /\ a = b
        /\ ImmutableFields(id)' = ImmutableFields(id)
        /\ AcceptedAt(id)' = AcceptedAt(id)
     \/ a = "NONE" /\ b = "PENDING"
     \/ /\ a = "PENDING" /\ b \in {"ACCEPTED", "EXPIRED"}
        /\ ImmutableFields(id)' = ImmutableFields(id)
     \/ a = "PENDING" /\ b = "DELETED"

\* C6: an invitation only goes from PENDING to ACCEPTED, from PENDING to
\* deleted and from PENDING to EXPIRED; ACCEPTED, deleted and EXPIRED are
\* terminal, and no field other than accepted_at ever changes.
C6_InvitationLifecycle == [][\A id \in 1..MaxInvitations : LifecycleStep(id)]_vars

\* ------------------------------------------------------- accept, two writes
\* the effective members of project p: the owner and the membership rows
EffectiveMembers(p) ==
  OwnersOf(p) \cup {m.user_id : m \in {x \in project_members : x.project_id = p}}

\* the ids of the invitations some pending-invitations query returns
PendingIds == {r.id : r \in {x \in project_invitations : Pending(x)}}

AcceptInsertStep(s) ==
  \A k \in 1..MaxInvitations, net \in NetOutcomes :
    (HandleAcceptInvitation(s, k, net) /\ pc'[s] = "accept_update")
    => LET I == userInvitations[s][k] IN
       /\ calls' = Calls(s, <<"insert:project_members">>)
       /\ project_members \subseteq project_members'
       /\ Cardinality(project_members' \ project_members) = 1
       /\ \A m \in project_members' \ project_members :
            /\ m.project_id = I.project_id /\ m.user_id = auth[s]
            /\ m.role = I.role /\ m.invited_by = I.invited_by
       /\ project_invitations' = project_invitations

AcceptUpdateStep(s) ==
  \A id \in 1..MaxInvitations, p \in 1..MaxProjects, B \in Users :
    (/\ AcceptUpdate(s, "ok")
     /\ auth[s] = B /\ frame[s].user = B
     /\ frame[s].inv.id = id /\ frame[s].inv.project_id = p
     /\ \E r \in project_invitations : r.id = id)
    => /\ calls' = Calls(s, <<"insert:project_members", "update:project_invitations">>)
       /\ toast' = Toast(s, "Invitation accepted")
       /\ project_members' = project_members
       /\ \A r \in project_invitations' : r.id = id => r.accepted_at # NoTime
       /\ ImmutableFields(id)' = ImmutableFields(id)
       /\ {r \in project_invitations' : r.id # id} =
            {r \in project_invitations : r.id # id}
       /\ id \notin PendingIds'
       /\ \A u \in Users :
            \A j \in 1..Len(PendingOfEmail(EmailOf(u))') :
              PendingOfEmail(EmailOf(u))'[j].id # id
       /\ \A q \in 1..MaxProjects :
            \A j \in 1..Len(PendingOfProject(q)') : PendingOfProject(q)'[j].id # id
       /\ B \in EffectiveMembers(p)'

\* C7: a successful accept of invitation I by identity B first inserts one
\* membership row for (I.project, B) with role I.role and invited_by
\* I.invited_by and leaves the invitations alone, then sets I.accepted_at
\* and nothing else; afterwards B is among the project's members and no
\* pending-invitations query returns I.
C7_AcceptTwoWrites ==
  [][\A s \in InviteeSide : AcceptInsertStep(s) /\ AcceptUpdateStep(s)]_vars

\* an accept has just completed: the membership row carries the role and the
\* inviter of the accepted invitation
C7_Accepted ==
  /\ toast = Toast("s2", "Invitation accepted")
  /\ calls = Calls("s2", <<"insert:project_members", "update:project_invitations">>)
  /\ \E r \in project_invitations, m \in project_members :
       /\ r.accepted_at # NoTime /\ r.email = EmailOf("U2")
       /\ m.project_id = r.project_id /\ m.user_id = "U2"
       /\ m.role = r.role /\ m.invited_by = r.invited_by

\* ------------------------------------------------------- accept, partial failure
AcceptNotCompensated ==
  \A s \in InviteeSide :
    /\ (AcceptUpdate(s, "fails") \/ (AcceptUpdate(s, "ok") /\ auth[s] = Null))
       => /\ toast' = Toast(s, "Error")
          /\ project_members' = project_members
          /\ project_invitations' = project_invitations
          /\ userInvitations'[s] = userInvitations[s]
          /\ pc'[s] = "idle"
    /\ \A k \in 1..MaxInvitations, net \in NetOutcomes :
         (HandleAcceptInvitation(s, k, net) /\ project_members' = project_members)
         => /\ pc'[s] = "idle"
            /\ \A i \in 1..Len(calls'.issued) :
                 calls'.issued[i] # "update:project_invitations"
            /\ project_invitations' = project_invitations

\* C8: when the update of accepted_at fails after the membership insert,
\* nothing is compensated: both tables and the shown list stay as they are,
\* so the membership row persists and the invitation stays pending; when the
\* membership insert fails, the update is not attempted and neither table
\* changes.
C8_AcceptNotCompensated == [][AcceptNotCompensated]_vars

\* the update has just failed: the identity is a member, and the invitation
\* is still pending and still listed
C8_MemberWithPendingInvitation ==
  /\ toast = Toast("s2", "Error")
  /\ calls = Calls("s2", <<"insert:project_members", "update:project_invitations">>)
  /\ \E k \in 1..Len(userInvitations["s2"]) :
       LET I == userInvitations["s2"][k] IN
       /\ I \in project_invitations /\ Pending(I)
       /\ \E m \in project_members :
            m.project_id = I.project_id /\ m.user_id = auth["s2"]

\* ------------------------------------------------------- invite, mail failure
MailFailureKeepsInvitation ==
  \A s \in OwnerSide, lookup \in LookupOutcomes, out \in EmailJsOutcomes :
    (InviteEmail(s, lookup, out) /\ (lookup = "rejects" \/ out # "ok"))
    => /\ project_invitations' = project_invitations
       /\ now' = now
       /\ outbox' = outbox
       /\ toast'.session = s
       /\ toast'.title \in {"Email notification failed", "Invitation created"}
       /\ pc'[s] = "load"

\* C9: when the mail of a created invitation is not dispatched, the
\* invitation rows are unchanged (and as pending as before), the user is told
\* that the invitation was created and the mail was not sent, and the
\* pending list is reloaded.
C9_MailFailureKeepsInvitation == [][MailFailureKeepsInvitation]_vars

\* the mail has just failed and the invitation is there, pending, with no
\* mail in the outbox, and the reload is due
C9_CreatedWithoutMail ==
  /\ toast = Toast("s1", "Email notification failed")
  /\ pc["s1"] = "load"
  /\ outbox = {}
  /\ \E r \in project_invitations : Pending(r) /\ r.invited_by = "U1"

\* ------------------------------------------------------- emailService.ts
\* C10: a call of sendInvitationEmail or sendContactEmail never rejects; its
\* result has success true and the response exactly when emailjs.send was
\* called and resolved, and success false and the error field otherwise.
C10_MailNeverThrows ==
  mail.fn # Null =>
    LET res == mail.result
        sendOk == res.sent /\ mail.out = "ok"
    IN /\ ~res.threw
       /\ res.success \in BOOLEAN
       /\ res.success <=> sendOk
       /\ res.success => res.response # Undefined /\ res.error = Undefined
       /\ ~res.success => res.response = Undefined
       /\ (mail.fn = "sendContactEmail" \/ mail.data.email # Undefined) => res.sent

\* sendInvitationEmail has returned a failure for a rejected send, and for
\* an input without an email
C10_StructuredFailure ==
  /\ mail.fn = "sendInvitationEmail"
  /\ mail.out \in {"status", "string"}
  /\ mail.data.email # Undefined
  /\ ~mail.result.success /\ ~mail.result.threw

\* ------------------------------------------------------- transfer, frame
\* the rows of the modal's member list
MemberListRows == [user_id : Users, role : {"owner", "member"}]

\* a completed transfer of project p from owner A to the member of row m
TransferFrame ==
  \A s \in Sessions, m \in MemberListRows, p \in 1..MaxProjects, A \in Users :
    (/\ projectId[s] = p /\ OwnersOf(p) = {A}
     /\ HandleTransferOwnership(s, m, "ok")
     /\ toast' = Toast(s, "Ownership transferred"))
    => /\ auth[s] = A
       /\ projects' = {IF r.id = p THEN [r EXCEPT !.user_id = m.user_id] ELSE r
                         : r \in projects}
       /\ \A r \in projects' : r.id = p => r.user_id = m.user_id
       /\ ~\E row \in project_members' :
             row.project_id = p /\ row.user_id \in {A, m.user_id}
       /\ \A row \in project_members :
             ~(row.project_id = p /\ row.user_id = m.user_id)
               => row \in project_members'
       /\ project_members' \subseteq project_members
       /\ project_invitations' = project_invitations

TransferByOwnerToMember ==
  \A s \in Sessions, m \in MemberListRows, net \in NetOutcomes :
    HandleTransferOwnership(s, m, net)
      => /\ auth[s] \in OwnersOf(projectId[s])
         /\ \E row \in project_members :
              row.project_id = projectId[s] /\ row.user_id = m.user_id

\* C12: the client issues the transfer call only when the current identity
\* is the owner of the project and only with a target that is a current
\* member of that project, also when the member list of the modal is stale.
C12_TransferByOwnerToMember == [][TransferByOwnerToMember]_vars

\* ------------------------------------------------------- quit
\* a Quit of identity u for project p: u is not the owner of p; a settled
\* delete removes the membership rows of u for p and no other row, also
\* when there is none, without an error; nothing else changes in the store
QuitContract ==
  \A s \in Sessions, p \in 1..MaxRegistryProjects, net \in NetOutcomes, u \in Users :
    (/\ user[s] = u /\ auth[s] = u
     /\ QuitProject(s, p, net))
    => /\ u \notin OwnersOf(p)
       /\ net = "ok" =>
            /\ project_members' =
                 {m \in project_members : ~(m.project_id = p /\ m.user_id = u)}
            /\ toast' = Toast(s, "Left project")
       /\ projects' = projects
       /\ project_invitations' = project_invitations

\* C13: Quit removes exactly the identity's membership row for the project
\* and nothing else, is silent when there is no such row, and is never issued
\* by the client for the owner of the project, also before the ownership
\* check of the card has resolved.
C13_QuitContract == [][QuitContract]_vars

\* ------------------------------------------------------- username lookup
\* the identities whose username equals the input up to letter case
\* (usernames are stored lower-cased)
UsernameMatches(input) == {p \in Profiles : p.username = ToLowerCase(input)}

\* a handleInvite of a signed-in owner whose input is no email: with a
\* match of the username up to case, and a reachable insert, the invitation
\* is created for the email of the match; without a match the toast is
\* "User not found" and nothing is written
UsernameLookup ==
  \A s \in Sessions, raw \in InviteInputs, net \in NetOutcomes :
    (/\ HandleInvite(s, raw, net)
     /\ auth[s] # Null /\ Trim(raw) # "" /\ ~EmailRegexTest(Trim(raw)))
    => IF UsernameMatches(Trim(raw)) = {}
         THEN /\ toast' = Toast(s, "User not found")
              /\ calls' = Calls(s, <<>>)
              /\ project_invitations' = project_invitations
         ELSE \A p \in UsernameMatches(Trim(raw)) :
                (/\ p.user_id # auth[s] /\ net = "ok"
                 /\ projectId[s] \in ProjectIds
                 /\ ~DbDuplicatePending(projectId[s], p.email))
                => \E r \in project_invitations' \ project_invitations :
                     r.project_id = projectId[s] /\ r.email = p.email

\* C14: an input that is no email is looked up as a username by
\* case-insensitive exact match, so an input that differs from a username
\* only in letter case resolves to the email of that identity; when no
\* identity has the username the invite fails with the not-found error and
\* writes nothing.
C14_UsernameLookup == [][UsernameLookup]_vars

\* ------------------------------------------------------- pending views
\* list holds exactly the rows of S, each once, newest first
ListsNewestFirst(list, S) ==
  /\ Len(list) = Cardinality(S)
  /\ {list[i] : i \in 1..Len(list)} = S
  /\ \A i, j \in 1..Len(list) : i < j => list[i].created_at >= list[j].created_at

\* the invitations that are neither accepted nor expired at the time of the step
PendingNow == {r \in project_invitations : r.accepted_at = NoTime /\ r.expires_at > now}

\* the three pending views as a load leaves them
PendingViewsExact ==
  \A s \in Sessions :
    /\ (LoadMembersAndInvitations(s) /\ modal[s] = "members"
           /\ projectId[s] \in ProjectIds)
        => ListsNewestFirst(invitations'[s],
                            {r \in PendingNow : r.project_id = projectId[s]})
    /\ (LoadInvitations(s) /\ modal[s] = "invitations" /\ auth[s] # Null)
        => ListsNewestFirst(userInvitations'[s],
                            {r \in PendingNow : r.email = EmailOf(auth[s])})
    /\ (LoadInvitations(s) /\ pc[s] = "load_inv_update"
           /\ user[s] # Null /\ auth[s] = user[s])
        => pendingInvitationsCount'[s] =
             Cardinality({r \in PendingNow : r.email = EmailOf(user[s])})

\* an expired invitation leaves the store only with its project
ExpiredNotDeleted ==
  \A r \in project_invitations \ project_invitations' :
    (r.accepted_at = NoTime /\ r.expires_at <= now)
      => r.project_id \notin {x.id : x \in projects'}

\* C15: every pending view (the pending invitations of a project, the
\* invitations list of the user and the count badge) contains exactly the
\* invitations with accepted_at null and expires_at later than the time of
\* the query, of its project or email, the lists newest first, and no client
\* operation deletes an expired invitation.
C15_PendingViews == [][PendingViewsExact /\ ExpiredNotDeleted]_vars

\* the views alone
C15_ViewsOnly == [][PendingViewsExact]_vars

\* ------------------------------------------------------- decline and cancel
\* the effect on the store of a delete of invitation id that the handler
\* reports with the toast done: the row with that id is gone and nothing
\* else has changed; with any other outcome the invitations are unchanged
DeleteOfInvitation(s, id, net, done) ==
  /\ projects' = projects
  /\ project_members' = project_members
  /\ IF toast' = Toast(s, done)
       THEN project_invitations' = {r \in project_invitations : r.id # id}
       ELSE project_invitations' = project_invitations
  /\ net = "fails" => project_invitations' = project_invitations
  /\ (net = "ok" /\ DbDeleteInvitationAllowed(auth[s], id)) => toast' = Toast(s, done)

DeclineAndCancelAlike ==
  \A s \in Sessions, k \in 1..MaxInvitations, net \in NetOutcomes,
     id \in 1..MaxInvitations :
    /\ (/\ k \in 1..Len(userInvitations[s]) /\ userInvitations[s][k].id = id
        /\ HandleDeclineInvitation(s, k, net))
       => DeleteOfInvitation(s, id, net, "Invitation declined")
    /\ (/\ k \in 1..Len(invitations[s]) /\ invitations[s][k].id = id
        /\ HandleCancelInvitation(s, k, net))
       => DeleteOfInvitation(s, id, net, "Invitation cancelled")

\* C16: Decline (by the invitee) and Cancel (by the inviter or owner) have
\* the same effect on the store: each deletes exactly the invitation row with
\* the given id and changes no membership, project or other invitation; on a
\* failed delete the invitation row is unchanged.
C16_DeclineAndCancelAlike == [][DeclineAndCancelAlike]_vars

\* the invitee has just declined one of two invitations: the other is still
\* stored
C16_DeclinedOneOfTwo ==
  /\ toast = Toast("s2", "Invitation declined")
  /\ calls = Calls("s2", <<"delete:project_invitations">>)
  /\ nextInvitation = 3
  /\ Cardinality(project_invitations) = 1

\* ------------------------------------------------------- accessible projects
\* the projects identity u owns or holds a membership row on
Accessible(u) ==
  {r \in projects :
     \/ r.user_id = u
     \/ \E m \in project_members : m.project_id = r.id /\ m.user_id = u}

\* list holds exactly the rows of S, each once, by updated_at descending
ListsByUpdatedAtDesc(list, S) ==
  /\ Len(list) = Cardinality(S)
  /\ {list[i] : i \in 1..Len(list)} = S
  /\ \A i, j \in 1..Len(list) : i < j => list[i].updated_at >= list[j].updated_at

\* every load of the project list, at mount and after an invitation was
\* accepted or declined, leaves the accessible projects of the identity
ListAccessible ==
  \A s \in Sessions, u \in Users :
    (/\ auth[s] = u
     /\ \/ MountAuthenticatedView(s)
        \/ LoadInvitations(s) /\ pc[s] = "load_inv_update" /\ user[s] = u)
    => ListsByUpdatedAtDesc(projectList'[s], Accessible(u))

SubstringIgnoringCase(hay, needle) ==
  \E i \in 0..Len(hay) : \E j \in i..Len(hay) :
    /\ j - i = Len(needle)
    /\ \A k \in 1..Len(needle) : LowerChar(hay[i + k]) = LowerChar(needle[k])

\* the match rule of the specification
FilterMatch(project, query, tagSet) ==
  /\ \/ query = NoText
     \/ SubstringIgnoringCase(project.name, query)
     \/ SubstringIgnoringCase(project.description, query)
     \/ \E tag \in {project.tags[i] : i \in 1..Len(project.tags)} :
          SubstringIgnoringCase(tag, query)
  /\ tagSet \subseteq {project.tags[i] : i \in 1..Len(project.tags)}

\* out holds exactly the matching projects of list in the order of list
StableSelection(list, out, query, tagSet) ==
  \E f \in [1..Len(out) -> 1..Len(list)] :
    /\ \A i, j \in 1..Len(out) : i < j => f[i] < f[j]
    /\ \A i \in 1..Len(out) : out[i] = list[f[i]]
    /\ {f[i] : i \in 1..Len(out)} =
         {k \in 1..Len(list) : FilterMatch(list[k], query, tagSet)}

FilterExact ==
  \A s \in Sessions :
    StableSelection(projectList[s], filteredProjects[s], searchQuery[s],
                    {selectedTags[s][i] : i \in 1..Len(selectedTags[s])})

FilterKeepsLoadedList ==
  \A s \in Sessions :
    ((\E query \in FilterQueries : SetSearchQuery(s, query))
       \/ (\E tag \in FilterTags : ToggleTagFilter(s, tag)))
    => projectList' = projectList

\* C18: the filter over the loaded project list returns exactly the projects
\* for which (the query is empty or a case-insensitive substring of the name,
\* the description or some tag) and (the tag set is empty or every tag of it
\* is among the tags of the project), in the order of the input list, and
\* leaves the loaded list unchanged.
C18_FilterExact == []FilterExact /\ [][FilterKeepsLoadedList]_vars

\* a search in another letter case and a selected tag keep the first and the
\* last of three loaded projects
C18_FilteredInOrder ==
  /\ Len(projectList["s1"]) = 3
  /\ Len(filteredProjects["s1"]) = 2
  /\ filteredProjects["s1"][1] = projectList["s1"][1]
  /\ filteredProjects["s1"][2] = projectList["s1"][3]
  /\ searchQuery["s1"] = <<"B">>
  /\ Len(selectedTags["s1"]) = 1
  /\ \E i \in 1..2 : ~Includes(filteredProjects["s1"][i].name, <<"B">>)

\* filtering by the search alone and by the tags alone
ByQuery(list, query) == FilterProjects(list, query, <<>>)
ByTags(list, tags) == FilterProjects(list, NoText, tags)

FilterAlgebra ==
  \A s \in Sessions :
    /\ FilterProjects(filteredProjects[s], searchQuery[s], selectedTags[s])
         = filteredProjects[s]
    /\ ByTags(ByQuery(projectList[s], searchQuery[s]), selectedTags[s])
         = ByQuery(ByTags(projectList[s], selectedTags[s]), searchQuery[s])
    /\ ByTags(ByQuery(projectList[s], searchQuery[s]), selectedTags[s])
         = filteredProjects[s]

\* C19: filtering is idempotent and commutative in its two predicates: for
\* any project list, query and tag set the filter applied to its own output
\* gives the same output, and filtering by query then by tags gives the same
\* result as filtering by tags then by query.
C19_FilterAlgebra == []FilterAlgebra

\* the search alone keeps two projects, the tags alone keep two, and both
\* together keep one
C19_BothPredicatesBite ==
  /\ Len(projectList["s1"]) = 3
  /\ Len(ByQuery(projectList["s1"], searchQuery["s1"])) = 2
  /\ Len(ByTags(projectList["s1"], selectedTags["s1"])) = 2
  /\ Len(filteredProjects["s1"]) = 1
  /\ ByQuery(projectList["s1"], searchQuery["s1"])[1] # filteredProjects["s1"][1]

\* ------------------------------------------------------- create
\* text without the blanks at its ends
Trimmed(text, raw) ==
  /\ \E i \in 0..Len(raw) : \E j \in i..Len(raw) :
       /\ text = SubSeq(raw, i + 1, j)
       /\ \A k \in (1..i) \cup ((j + 1)..Len(raw)) : raw[k] = " "
  /\ text # <<>> => text[1] # " " /\ text[Len(text)] # " "

BlankName(form) == \A k \in 1..Len(form.name) : form.name[k] = " "

\* a submit with a name that is not blank, by identity u: one row is
\* inserted, with the trimmed name and u as owner, and the row is put at the
\* head of the project list of the page
CreateInserts(s, form, u) ==
  \E row \in projects' \ projects :
    /\ projects' = projects \cup {row}
    /\ Trimmed(row.name, form.name)
    /\ row.user_id = u
    /\ calls' = Calls(s, <<"insert:projects">>)
    /\ toast' = Toast(s, "Project created")
    /\ projectList'[s] = <<row>> \o projectList[s]

\* a submit with a blank name returns at once: no call, no row, no message
CreateContract ==
  \A s \in Sessions, form \in RegistryForms, u \in Users :
    (auth[s] = u /\ CreateProject(s, form, "ok"))
    => IF BlankName(form)
         THEN /\ projects' = projects /\ projectList' = projectList
              /\ calls' = NoCalls /\ toast' = NoToast
         ELSE CreateInserts(s, form, u)

\* a submit with a blank name inserts nothing and reports an error
CreateContractWithError ==
  \A s \in Sessions, form \in RegistryForms, u \in Users :
    (auth[s] = u /\ CreateProject(s, form, "ok"))
    => IF BlankName(form)
         THEN /\ projects' = projects /\ projectList' = projectList
              /\ calls' = NoCalls /\ toast' # NoToast
         ELSE CreateInserts(s, form, u)

NoDuplicates(list) == \A i, j \in 1..Len(list) : i # j => list[i] # list[j]

\* the tags of the form, and the tags of every project stored
TagsDeduplicated ==
  /\ \A s \in Sessions : NoDuplicates(formTags[s])
  /\ \A r \in projects : NoDuplicates(r.tags)

\* Enter in the tag input with a tag that is not blank: a tag of the list
\* changes nothing, any other tag is put at the end of the list
AddTagStep ==
  \A s \in OwnerSide, tag \in TagValues :
    (/\ HandleAddTag(s, "Enter")
     /\ Trimmed(tag, newTag[s]) /\ tag # NoText)
    => IF \E i \in 1..Len(formTags[s]) : formTags[s][i] = tag
         THEN formTags' = formTags
         ELSE formTags' = [formTags EXCEPT ![s] = formTags[s] \o <<tag>>]

\* out holds the tags of list other than tag, in the order of list
WithoutTag(list, out, tag) ==
  \E f \in [1..Len(out) -> 1..Len(list)] :
    /\ \A i, j \in 1..Len(out) : i < j => f[i] < f[j]
    /\ \A i \in 1..Len(out) : out[i] = list[f[i]]
    /\ {f[i] : i \in 1..Len(out)} = {k \in 1..Len(list) : list[k] # tag}

RemoveTagStep ==
  \A s \in OwnerSide, tag \in TagValues :
    HandleRemoveTag(s, tag)
    => /\ \A list \in {formTags[s]} : WithoutTag(list, formTags'[s], tag)
       /\ \A o \in Sessions \ {s} : formTags'[o] = formTags[o]

\* C21: the tag list submitted with a project contains no duplicates after
\* any sequence of add-tag and remove-tag actions: adding a tag that is
\* already present (compared case-sensitively, after trimming) leaves the
\* list unchanged, a new tag is appended at the end, and removing a tag
\* removes every occurrence of it and nothing else.
C21_TagList == []TagsDeduplicated /\ [][AddTagStep /\ RemoveTagStep]_vars

\* a project has been submitted with three tags; the form holds "A" and "a"
\* again, "b" has been removed from between them, and the tag typed is "a"
\* with blanks around it
C21_DuplicateTyped ==
  /\ \E r \in projects : r.tags = << <<"a">>, <<"A">>, <<"b">> >>
  /\ formTags["s1"] = << <<"A">>, <<"a">> >>
  /\ newTag["s1"] = <<" ", "a", " ">>

\* ------------------------------------------------------- delete
\* every membership and every invitation is of a project that exists
NoOrphans ==
  /\ \A m \in project_members : m.project_id \in ProjectIds
  /\ \A r \in project_invitations : r.project_id \in ProjectIds

\* the rows of a table that are not of project p
NotOf(rows, p) == {r \in rows : r.project_id # p}

DeleteContract ==
  \A s \in OwnerSide, p \in 1..MaxProjects, net \in NetOutcomes, o \in Users :
    (DeleteProject(s, p, net) /\ auth[s] = o)
    => IF net = "ok" /\ o \in OwnersOf(p)
         THEN /\ toast' = Toast(s, "Project deleted")
              /\ projects' = {r \in projects : r.id # p}
              /\ project_members' = NotOf(project_members, p)
              /\ project_invitations' = NotOf(project_invitations, p)
              /\ \A u \in Users : \A r \in Accessible(u)' : r.id # p
              /\ p \notin CardIds(projectList'[s])
         ELSE /\ toast' = Toast(s, "Error")
              /\ UNCHANGED <<projects, project_members, project_invitations,
                             projectList>>

\* C22: a delete removes the project and all its membership rows and
\* invitations, so that no membership or invitation refers to a project that
\* is gone and the project is in no identity's accessible list; a delete
\* that fails leaves the project, its memberships, its invitations and the
\* local project list unchanged.
C22_DeleteCascades == []NoOrphans /\ [][DeleteContract]_vars

\* the owner has just deleted the project that the invitee had joined
C22_DeletedWithMember ==
  /\ toast = Toast("s1", "Project deleted")
  /\ projects = {} /\ project_members = {}
  /\ \E k \in 1..Len(projectList["s2"]) : projectList["s2"][k].id = 1
  /\ nextInvitation > 1 /\ project_invitations = {}

\* ------------------------------------------------------- identity gate
\* the page is subscribed, its getUser() has resolved and every event
\* delivered to it has been handled
GateSettled(s) ==
  subscribed[s] /\ fetch[s] = NoFetch /\ events[s] = <<>>

\* C23: once the initial fetch of the identity and all delivered change
\* events have been processed, in any interleaving, the identity held by
\* the gate is the current identity of the backend session.
C23_GateHoldsCurrentIdentity ==
  \A s \in InviteeSide : GateSettled(s) => user[s] = auth[s]

\* ------------------------------------------------------- failures
\* the step showed one of the error messages to the user of browser s
ErrorShown(s) ==
  /\ toast'.session = s
  /\ toast'.title \in {"Error", "Authentication error", "User not found"}

\* every step of a handler in which a remote call has failed shows an error
\* message, and no promise of a handler rejects uncaught
FailuresSurfaced ==
  /\ unhandled' = unhandled
  /\ \A s \in OwnerSide :
       /\ \A raw \in InviteInputs, at \in InviteAwaitsBeforeTry :
            HandleInviteRejected(s, raw, at) => ErrorShown(s)
       /\ \A raw \in InviteInputs :
            (HandleInvite(s, raw, "fails") /\ ResolveInviteTarget(auth[s], raw).err = Null)
            => ErrorShown(s)
       /\ \A ids \in LookupOutcomes, net \in NetOutcomes :
            (LoadProjects(s, ids, net) /\ (ids # "ok" \/ net # "ok")) => ErrorShown(s)
       /\ \A form \in WorkflowForms : CreateProject(s, form, "fails") => ErrorShown(s)
       /\ \A p \in 1..MaxProjects : DeleteProject(s, p, "fails") => ErrorShown(s)
       /\ \A k \in 1..MaxInvitations :
            HandleCancelInvitation(s, k, "fails") => ErrorShown(s)

\* C24: every remote-call failure in the project, membership and invitation
\* operations (an error result or a rejected call, the identity fetch and
\* the username lookup at the start of handleInvite included) is caught and
\* shown to the user as one error message; none escapes its handler.
C24_FailuresSurfaced == [][FailuresSurfaced]_vars

\* ------------------------------------------------------- no identity
\* the step refused the attempt of browser s for want of an identity: an
\* error is shown, no remote write is issued and no table changes
AuthenticationRequired(s) ==
  /\ toast'.session = s
  /\ toast'.title \in {"Authentication error", "Error"}
  /\ calls' = Calls(s, <<>>)
  /\ UNCHANGED <<projects, project_members, project_invitations>>

NoIdentityRefused ==
  \A s \in Sessions : auth[s] = Null =>
    /\ \A raw \in {"bob@x.io", "bob"}, net \in NetOutcomes :
         HandleInvite(s, raw, net) => AuthenticationRequired(s)
    /\ \A k \in 1..MaxInvitations, net \in NetOutcomes :
         HandleAcceptInvitation(s, k, net) => AuthenticationRequired(s)
    /\ \A form \in WorkflowForms, net \in NetOutcomes :
         CreateProject(s, form, net) => AuthenticationRequired(s)
    /\ \A p \in 1..MaxProjects, form \in EditForms, net \in NetOutcomes :
         UpdateProject(s, p, form, net) => AuthenticationRequired(s)
    /\ \A p \in 1..MaxProjects, net \in NetOutcomes :
         QuitProject(s, p, net) => AuthenticationRequired(s)

\* C25: an invite, accept, create or update of a project, or quit that is
\* attempted while the browser has no identity fails with the
\* authentication-required condition and writes nothing to projects,
\* memberships or invitations.
C25_NoIdentityRefused == [][NoIdentityRefused]_vars

\* ------------------------------------------------------- mail dispatch
\* the step called sendInvitationEmail
Dispatched == \E i \in 1..Len(calls'.issued) : calls'.issued[i] = "email"

\* a dispatch belongs to the handleInvite of one browser whose insert has
\* stored the newest invitation; the mail carries the address and the token
\* of that row, ends that handleInvite, and leaves the invitations as they are
DispatchAfterInsert ==
  (Dispatched \/ outbox' # outbox) =>
    \E s \in OwnerSide : \E inv \in {frame[s].inv} :
      /\ pc[s] = "invite_email" /\ pc'[s] # "invite_email"
      /\ calls' = Calls(s, <<"insert:project_invitations", "email">>)
      /\ inv.id = nextInvitation - 1 /\ inv.token = inv.id
      /\ inv.created_at <= now
      /\ outbox' \in {outbox, outbox \cup {[to_email |-> inv.email, token |-> inv.token]}}
      /\ \A m \in outbox : m.token # inv.token
      /\ UNCHANGED <<project_invitations, nextInvitation>>

\* a handleInvite waits for its mail only when its insert has just stored a
\* new row
MailOnlyForNewRow ==
  \A s \in OwnerSide :
    (pc[s] # "invite_email" /\ pc'[s] = "invite_email") =>
      /\ nextInvitation' = nextInvitation + 1
      /\ \A id \in {nextInvitation} :
           /\ frame'[s].inv.id = id
           /\ frame'[s].inv \in project_invitations' \ project_invitations

\* the toasts of handleInvite when it stores no invitation
InviteRefusals ==
  {"Input required", "Authentication error", "Invalid invitation",
   "User not found", "Already invited", "Error"}

\* no mail and no wait for a mail when the invitation was refused by
\* validation, or the insert was issued and stored no row (it failed or was a
\* duplicate): the handler is back at rest with one of the refusal toasts
NoMailWithoutRow ==
  \A s \in OwnerSide :
    (/\ calls'.session = s /\ pc[s] = "idle" /\ modal[s] = "members"
     /\ \/ toast'.title \in InviteRefusals
        \/ /\ calls'.issued = <<"insert:project_invitations">>
           /\ project_invitations' = project_invitations)
    => /\ ~Dispatched /\ outbox' = outbox /\ pc'[s] = "idle"
       /\ project_invitations' \subseteq project_invitations
       /\ nextInvitation' = nextInvitation
       /\ toast'.title \in InviteRefusals

\* C26: the invitation mail is dispatched only as a side effect of a
\* successful creation of an invitation and never blocks or reverses it: at
\* most once per invitation, only after the row has been stored and with
\* that row's token, and never when the insert failed, was a duplicate or
\* was refused by validation.
C26_MailFollowsInsert ==
  [][DispatchAfterInsert /\ MailOnlyForNewRow /\ NoMailWithoutRow]_vars

\* the mail of the second invitation has just been accepted by the mail
\* service; the first invitation got no mail
C26_SecondMailSent ==
  /\ toast = Toast("s1", "Invitation sent")
  /\ calls = Calls("s1", <<"insert:project_invitations", "email">>)
  /\ outbox = {[to_email |-> "bob@x.io", token |-> 2]}
  /\ \E r \in project_invitations : r.token = 2 /\ r.email = "bob@x.io"

\* ------------------------------------------------------------------ C27
\* an email address, as opposed to a username, an empty string or no value
ConcreteEmail(e) ==
  /\ e # Null /\ e # "" /\ EmailRegexTest(e)
  /\ \A p \in Profiles : e # p.username

AllInvitationsConcrete == \A r \in project_invitations : ConcreteEmail(r.email)

\* the row a handleInvite step stores, against what was typed
StoredAs(stored(_)) ==
  \A s \in OwnerSide :
    (pc[s] = "idle" /\ pc'[s] = "invite_email")
    => \A raw \in InviteInputs :
         HandleInvite(s, raw, "ok")
         => \A row \in project_invitations' \ project_invitations :
              IF EmailRegexTest(Trim(raw))
                THEN row.email = stored(Trim(raw))
                ELSE \E p \in Profiles :
                       p.username = Trim(raw) /\ row.email = p.email

AsTyped(input) == input

\* C27 as stated: every stored invitation carries a concrete email address,
\* never a username or an empty value; an email input is stored as typed,
\* a username input as the email of the identity it resolves to.
C27_StoredAsTyped == []AllInvitationsConcrete /\ [][StoredAs(AsTyped)]_vars

\* C27: every stored invitation carries a concrete email address, never a
\* username or an empty value; an email input is stored trimmed and in
\* lower case, a username input as the email of the identity it resolves to.
C27_StoredConcrete == []AllInvitationsConcrete /\ [][StoredAs(ToLowerCase)]_vars

\* an invitation has just been stored for bob's address
C27_StoredForBob ==
  /\ pc["s1"] = "invite_email"
  /\ frame["s1"].inv \in project_invitations
  /\ frame["s1"].inv.email = "bob@x.io"
  /\ frame["s1"].target = "bob@x.io"

\* ------------------------------------------------------------------ C29
\* C29: an identity has at most one membership row per project after any
\* sequence of invite, accept, quit and transfer: no invite or accept gives
\* a member or the owner a second membership row for the project.
C29_OneMembershipRow ==
  \A m1 \in project_members, m2 \in project_members :
    (m1.project_id = m2.project_id /\ m1.user_id = m2.user_id) => m1 = m2

\* ------------------------------------------------------------------ C28
\* no mutation of the page is in flight and no handler is at an await
Quiescent(s) == inflight[s] = {} /\ pc[s] = "idle"

\* the project list holds the accessible projects of the identity, once each
InSync(s) ==
  /\ {projectList[s][i] : i \in 1..Len(projectList[s])}
       = AccessibleProjects(auth[s], user[s])
  /\ Len(projectList[s]) = Cardinality(AccessibleProjects(auth[s], user[s]))

\* C28: once every create, update, delete and quit of the session has
\* settled, the local project list equals the accessible projects of the
\* identity on the backend, also when two mutations were in flight at the
\* same time.
C28_ListMatchesBackend == \A s \in InviteeSide : Quiescent(s) => InSync(s)

\* ------------------------------------------------------------------ C30
\* C30: provided every remote call settles, every busy flag that a handler
\* sets is cleared again on every path: isInviting after handleInvite,
\* isLoading after the loads of the two modals, after the submit of a
\* project and after the submit of AuthModal, early returns included.
C30_BusyFlagsCleared ==
  \A s \in Sessions :
    /\ isInviting[s] ~> ~isInviting[s]
    /\ \A c \in Components : isLoading[s][c] ~> ~isLoading[s][c]

\* the return of handleInvite for a duplicate has cleared isInviting
C30_ClearedAfterDuplicate ==
  /\ toast = Toast("s2", "Already invited")
  /\ ~isInviting["s2"]
  /\ calls = Calls("s2", <<"insert:project_invitations">>)

====
